---- MODULE Spec2Model ----
(***************************************************************************)
(* Model of the note synchronisation backend: the Note model (models/Note), *)
(* the batch sync engine (services/syncService), the single-change          *)
(* endpoints (controllers/noteController), the sharing service              *)
(* (services/permissionService) and the cache-key tracker                   *)
(* (services/cacheService).                                                 *)
(*                                                                          *)
(* Every request is a process.  A process takes one atomic step per answer  *)
(* of an external store: JavaScript runs a handler without interruption     *)
(* between two awaited I/O calls, so everything the code does between two   *)
(* awaits is one action.  A Mongoose document is a private copy of the      *)
(* stored document; save() writes the paths that were modified on that      *)
(* copy, addressed by _id alone, and checks the stored revision (__v) only  *)
(* when the write replaces an array.                                        *)
(*                                                                          *)
(* The informational field lastModifiedByClientId and the timestamps are    *)
(* not modelled: no decision of the code reads them.                        *)
(***************************************************************************)
EXTENDS Integers, Sequences, FiniteSets, TLC

\* ------------------------------------------------------------------ bounds

\* Longest batch a client submits to syncChanges.
MaxBatch == 3
\* Updates and deletes are submitted only against documents below this version.
MaxVersion == 3
\* The clock of the server runs from 0 to MaxNow.
MaxNow == 2
\* The paged listing: documents in the collection, distinct timestamps, and
\* the largest page size a client asks for.
MaxNotes == 3
MaxStamp == 2
MaxLimit == 2

Users == {"u1", "u2"}
Procs == {"p1", "p2"}
\* The document identities; 0 stands for a missing id.  Every operation addresses
\* one document and no operation reads another one, so one identity is modelled.
NoteIds == {1}

\* A payload field that is undefined in the request.
Absent == "absent"
\* Option values: <<>> is null/undefined, <<x>> is x.
None == <<>>
Some(x) == <<x>>

\* ------------------------------------------------------------------ state

VARIABLES
    notes,      \* the notes collection: id -> <<>> (no document) or <<document>>
    pc,         \* position of each request
    req,        \* per request: acting user, kind, batch length
    results,    \* per request: the outcomes pushed so far
    doc,        \* per request: the Mongoose document held in memory
    inflight,   \* saves that were started and never awaited
    lostSaves,  \* <<request, index>> of the changes whose unawaited save failed
    cache,      \* redis: cached list pages, key -> <<>> or <<page>>
    cacheKeys,  \* redis: per user, the set of tracked cache keys
    emitted,    \* per request: the socket events it has emitted, in order
    invites,    \* the invites collection: token -> <<>> or <<invite>>
    invite,     \* per request: the Invite document held in memory
    now,        \* the clock of the server
    joined,     \* socket.io: the <<user, note>> of the sessions in each note room
    collection, \* the notes collection with timestamps, as the paged listing reads it
    pageCache,  \* redis: the cached pages by cursor and limit, and the tracked keys
    walk        \* the client that follows nextCursor: cursor, page size, pages received

vars == <<notes, pc, req, results, doc, inflight, lostSaves, cache, cacheKeys, emitted,
         invites, invite, now, joined, collection, pageCache, walk>>

\* ------------------------------------------------------- models/Note.js

\* The paths of a stored note.
Paths == {"owner", "title", "body", "tags", "version", "deleted", "sharedWith", "isPublic"}
\* The paths whose value is an array: replacing one makes save() check __v.
ArrayPaths == {"tags", "sharedWith"}

\* new Note({...}): schema defaults for what the caller leaves out.
NewNote(id, owner, title, body, tags, version) ==
    [id |-> id, owner |-> owner, title |-> title, body |-> body, tags |-> tags,
     version |-> version, deleted |-> FALSE, sharedWith |-> <<>>, isPublic |-> FALSE,
     rev |-> 0, modified |-> Paths]

\* A stored document as the in-memory document findOne / findById returns.
Hydrate(id, stored) ==
    [id |-> id, owner |-> stored.owner, title |-> stored.title, body |-> stored.body,
     tags |-> stored.tags, version |-> stored.version, deleted |-> stored.deleted,
     sharedWith |-> stored.sharedWith, isPublic |-> stored.isPublic,
     rev |-> stored.rev, modified |-> {}]

\* doc.path = val: Mongoose marks the path modified when the value changes.
SetPath(d, path, val) ==
    IF d[path] = val THEN d
    ELSE [[d EXCEPT ![path] = val] EXCEPT !.modified = @ \cup {path}]

\* levels[required] || levels.read
LevelOf(required) == IF required = "edit" THEN 2 ELSE 1

\* The loop over sharedWith: the first entry of the user decides.
RECURSIVE ScanShared(_, _, _)
ScanShared(list, uid, need) ==
    IF list = <<>> THEN "none"
    ELSE LET s == Head(list) IN
         IF s.user = uid
         THEN IF (s.permission = "edit" /\ need <= 2) \/ (s.permission = "read" /\ need <= 1)
              THEN (IF s.permission = "edit" THEN "edit" ELSE "read")
              ELSE "none"
         ELSE ScanShared(Tail(list), uid, need)

\* A hasPermission whose public check forgets to look at isPublic.
hasPermission_AlwaysPublic(d, userId, required) ==
    LET need == LevelOf(required) IN
    IF userId = "" THEN "none"
    ELSE IF d.owner = userId THEN "owner"
    ELSE IF need <= 1 THEN "public"
    ELSE ScanShared(d.sharedWith, userId, need)

\* A hasPermission that looks at the sharing list before the public flag.
hasPermission_SharedFirst(d, userId, required) ==
    LET need == LevelOf(required)
        shared == ScanShared(d.sharedWith, userId, need)
    IN IF userId = "" THEN "none"
       ELSE IF d.owner = userId THEN "owner"
       ELSE IF shared # "none" THEN shared
       ELSE IF d.isPublic /\ need <= 1 THEN "public"
       ELSE "none"

\* NoteSchema.methods.hasPermission; "none" is null.
hasPermission(d, userId, required) ==
    LET need == LevelOf(required) IN
    IF userId = "" THEN "none"
    ELSE IF d.owner = userId THEN "owner"
    ELSE IF d.isPublic /\ need <= 1 THEN "public"
    ELSE ScanShared(d.sharedWith, userId, need)

\* A bumpVersion that skips a number: this.version = (this.version || 0) + 2.
bumpVersion_Twice(d) == SetPath(d, "version", d.version + 2)

\* NoteSchema.methods.bumpVersion
bumpVersion(d) == SetPath(d, "version", d.version + 1)

\* A softDelete that sets the flag and forgets bumpVersion().
softDelete_NoBump(d) == SetPath(d, "deleted", TRUE)

\* NoteSchema.methods.softDelete, up to the call of save().
softDelete(d) == bumpVersion(SetPath(d, "deleted", TRUE))

\* (this.sharedWith || []).filter(s => String(s.user) !== uid)
RECURSIVE WithoutUser(_, _)
WithoutUser(list, uid) ==
    IF list = <<>> THEN <<>>
    ELSE IF Head(list).user = uid THEN WithoutUser(Tail(list), uid)
    ELSE <<Head(list)>> \o WithoutUser(Tail(list), uid)

\* A shareWith that pushes the new entry without removing the old one.
shareWith_NoFilter(d, userId, permission) ==
    [[d EXCEPT !.sharedWith =
          Append(d.sharedWith,
                 [user |-> userId,
                  permission |-> IF permission = "edit" THEN "edit" ELSE "read"])]
     EXCEPT !.modified = @ \cup {"sharedWith"}]

\* NoteSchema.methods.shareWith, up to the call of save(): the array is
\* replaced and pushed to, so the path is modified whatever it held.
shareWith(d, userId, permission) ==
    [[d EXCEPT !.sharedWith =
          Append(WithoutUser(d.sharedWith, userId),
                 [user |-> userId,
                  permission |-> IF permission = "edit" THEN "edit" ELSE "read"])]
     EXCEPT !.modified = @ \cup {"sharedWith"}]

\* NoteSchema.methods.unshareWith, up to the call of save().
unshareWith(d, userId) ==
    [[d EXCEPT !.sharedWith = WithoutUser(d.sharedWith, userId)]
     EXCEPT !.modified = @ \cup {"sharedWith"}]

\* doc.toJSON(): the document as the client sees it.
Snapshot(d) ==
    [id |-> d.id, owner |-> d.owner, title |-> d.title, body |-> d.body, tags |-> d.tags,
     version |-> d.version, deleted |-> d.deleted, sharedWith |-> d.sharedWith,
     isPublic |-> d.isPublic]

\* ------------------------------------------------ document.save() at the store

\* save() of a new document inserts it.
Inserted(d) ==
    [owner |-> d.owner, title |-> d.title, body |-> d.body, tags |-> d.tags,
     version |-> d.version, deleted |-> d.deleted, sharedWith |-> d.sharedWith,
     isPublic |-> d.isPublic, rev |-> d.rev]

\* save() of a loaded document replaces an array: it adds __v to the filter.
ChecksRev(d) == d.modified \cap ArrayPaths # {}

\* The update matches no document: save() rejects with a VersionError.
VersionError(stored, d) == ChecksRev(d) /\ stored.rev # d.rev

\* updateOne({_id}, {$set: the modified paths}), $inc __v when __v was checked.
Written(stored, d) ==
    [owner |-> IF "owner" \in d.modified THEN d.owner ELSE stored.owner,
     title |-> IF "title" \in d.modified THEN d.title ELSE stored.title,
     body |-> IF "body" \in d.modified THEN d.body ELSE stored.body,
     tags |-> IF "tags" \in d.modified THEN d.tags ELSE stored.tags,
     version |-> IF "version" \in d.modified THEN d.version ELSE stored.version,
     deleted |-> IF "deleted" \in d.modified THEN d.deleted ELSE stored.deleted,
     sharedWith |-> IF "sharedWith" \in d.modified THEN d.sharedWith ELSE stored.sharedWith,
     isPublic |-> IF "isPublic" \in d.modified THEN d.isPublic ELSE stored.isPublic,
     rev |-> IF ChecksRev(d) THEN stored.rev + 1 ELSE stored.rev]

\* The in-memory document once its save() has resolved.
Saved(d) == [d EXCEPT !.modified = {}, !.rev = IF ChecksRev(d) THEN @ + 1 ELSE @]

\* ------------------------------------------------ services/cacheService.js

\* The cache keys getNotes uses: one list page per user.
CacheKeyNames == {<<"notes", u, "start">> : u \in Users}

\* invalidateForUsers: for every user, del(...members) then del(setKey).
InvalidatedCache(c, keys, users) ==
    [k \in CacheKeyNames |-> IF \E u \in users : k \in keys[u] THEN None ELSE c[k]]

InvalidatedKeys(keys, users) ==
    [u \in Users |-> IF u \in users THEN {} ELSE keys[u]]

\* cacheService.invalidateForUsers(userIds): the tracked keys of the users and
\* their key sets are deleted; when Redis fails the error is logged and the
\* caller goes on with the cache as it is.
invalidateForUsers(users) ==
    \/ /\ cache' = InvalidatedCache(cache, cacheKeys, users)
       /\ cacheKeys' = InvalidatedKeys(cacheKeys, users)
    \/ UNCHANGED <<cache, cacheKeys>>

\* [doc.owner, ...doc.sharedWith.map(s => s.user)]
AffectedUsers(d) == {d.owner} \cup {d.sharedWith[i].user : i \in 1..Len(d.sharedWith)}

\* ------------------------------------------------ services/websocketService.js

\* What an event carries: doc.toJSON(), or { id } alone for note:deleted.
Json(d) == [id |-> d.id, note |-> Some(Snapshot(d))]
IdOnly(d) == [id |-> d.id, note |-> None]

\* emitToUser / emitToNote: ioInstance.to(room).emit(event, payload), on a server
\* whose initSocketServer has run.
emitToUser(userId, event, payload) ==
    [room |-> "user", user |-> userId, note |-> 0, event |-> event, payload |-> payload]
emitToNote(noteId, event, payload) ==
    [room |-> "note", user |-> "", note |-> noteId, event |-> event, payload |-> payload]

\* socket.on('join:note'): the session of an authenticated user joins the room
\* note:<noteId> for any noteId it names.
joinNote(u, id) ==
    /\ <<u, id>> \notin joined
    /\ joined' = joined \cup {<<u, id>>}
    /\ UNCHANGED <<notes, pc, req, results, doc, inflight, lostSaves, cache, cacheKeys,
                   emitted, invites, invite, now,
                   collection, pageCache, walk>>

\* socket.on('leave:note')
leaveNote(u, id) ==
    /\ <<u, id>> \in joined
    /\ joined' = joined \ {<<u, id>>}
    /\ UNCHANGED <<notes, pc, req, results, doc, inflight, lostSaves, cache, cacheKeys,
                   emitted, invites, invite, now,
                   collection, pageCache, walk>>

\* The same array, in its order: the owner first, then the sharing list.
AffectedList(d) == <<d.owner>> \o [i \in 1..Len(d.sharedWith) |-> d.sharedWith[i].user]
\* affectedUsers.forEach(uid => websocketService.emitToUser(uid, event, payload))
ToUsers(d, event, payload) ==
    [i \in 1..Len(AffectedList(d)) |-> emitToUser(AffectedList(d)[i], event, payload)]
\* websocketService.emitToNote(doc._id.toString(), event, payload)
ToNote(d, event, payload) == <<emitToNote(d.id, event, payload)>>

\* ------------------------------------------------------------------ inputs

\* The title/body/tags a change or a request body carries; has = the fields present.
NoFields == [has |-> {}, title |-> "", body |-> "", tags |-> <<>>]
Payloads ==
    { NoFields,
      [has |-> {"title"}, title |-> "A", body |-> "", tags |-> <<>>],
      [has |-> {"title", "body"}, title |-> "B", body |-> "x", tags |-> <<>>],
      [has |-> {"tags"}, title |-> "", body |-> "", tags |-> <<"t">>] }

\* note.version: a number, or not a number (hasVersion = FALSE).
NoVersion == [hasVersion |-> FALSE, version |-> 0]
VersionInputs == {NoVersion} \cup {[hasVersion |-> TRUE, version |-> v] : v \in 0..MaxVersion}

\* The correlation id the client gives the i-th change of its batch.
\* The users that ask: the users of the model and a stranger to every document.
Askers == Users \cup {"u3"}

\* The values hasPermission is called with as required level: read, edit, a
\* word it does not know, and none at all (both taken as read).
RequiredLevels == {"read", "edit", "admin", Absent}

LocalIdOf(i) == <<"local", i>>

Change(op, hasNote, id, vin, fields, i) ==
    [isNull |-> FALSE, op |-> op, hasNote |-> hasNote, id |-> id,
     hasVersion |-> vin.hasVersion, version |-> vin.version,
     has |-> fields.has, title |-> fields.title, body |-> fields.body, tags |-> fields.tags,
     localId |-> LocalIdOf(i)]

\* Every element a client can put at position i of the changes array:
\* null, no op, an unknown op, no note payload, no note.id (id = 0), or well-formed.
ChangesAt(i) ==
    { [Change("create", FALSE, 0, NoVersion, NoFields, i) EXCEPT !.isNull = TRUE] }
    \cup { Change(op, FALSE, 0, NoVersion, NoFields, i) :
             op \in {Absent, "purge", "create", "update", "delete"} }
    \cup { Change("create", TRUE, 0, vin, f, i) : vin \in VersionInputs, f \in Payloads }
    \cup { Change("update", TRUE, id, vin, f, i) :
             id \in {0} \cup NoteIds, vin \in VersionInputs, f \in Payloads }
    \cup { Change("delete", TRUE, id, vin, NoFields, i) :
             id \in {0} \cup NoteIds, vin \in VersionInputs }

\* ------------------------------------------------------- outcomes

Outcome(localId, id, status, error, serverNote) ==
    [localId |-> localId, id |-> id, status |-> status, error |-> error,
     serverNote |-> serverNote]

\* The identities of the documents under construction (new Note draws a fresh _id).
Reserved == {doc[q][1].id : q \in {r \in Procs : pc[r] \in {"create_save", "createNote_save"}}}

FreeIds == {id \in NoteIds : notes[id] = None /\ id \notin Reserved}

\* The filter {_id: id, deleted: false} matches a stored document.
Live(id) == IF notes[id] = None THEN FALSE ELSE ~notes[id][1].deleted

\* Updates and deletes are submitted only while the target is below MaxVersion.
BelowCap(id) ==
    IF id \in NoteIds THEN (IF notes[id] = None THEN TRUE ELSE notes[id][1].version < MaxVersion)
    ELSE TRUE

\* ------------------------------------------------ services/syncService.js

\* results.push(r), then the loop goes on or syncChanges returns.
Push(p, r) ==
    /\ results' = [results EXCEPT ![p] = Append(@, r)]
    /\ pc' = [pc EXCEPT ![p] = IF Len(results[p]) + 1 = req[p].len THEN "done" ELSE "sync"]

\* The loop variable `change` while one of the apply functions awaits the store.
Holding(p, c) == req' = [req EXCEPT ![p].change = Some(c)]
Dropped(p) == req' = [req EXCEPT ![p].change = None]
\* A version check that lets a client one version behind through.
VersionConflict_OneBehind(c, d) == c.hasVersion /\ c.version < d.version - 1

\* A version check that takes a missing client version for version 0.
VersionConflict_MissingIsZero(c, d) ==
    (IF c.hasVersion THEN c.version ELSE 0) < d.version

\* The version check of applyUpdate and updateNote.
VersionConflict(c, d) == c.hasVersion /\ c.version < d.version

\* A permission check that takes any access for edit access.
MayEdit_AnyAccess(d, userId) ==
    hasPermission(d, userId, "read") \in {"owner", "edit", "read", "public"}

\* !perm || (perm !== 'owner' && perm !== 'edit')
MayEdit(d, userId) == hasPermission(d, userId, "edit") \in {"owner", "edit"}

\* "Apply fields" of applyUpdate and updateNote, then bumpVersion().
ApplyFields(d, c) ==
    LET d1 == IF "title" \in c.has THEN SetPath(d, "title", c.title) ELSE d
        d2 == IF "body" \in c.has THEN SetPath(d1, "body", c.body) ELSE d1
        d3 == IF "tags" \in c.has THEN SetPath(d2, "tags", c.tags) ELSE d2
    IN bumpVersion(d3)

\* POST /sync: syncChanges(userId, changes) is called with an array of len elements.
syncChanges(p, lens) ==
    /\ pc[p] = "idle"
    /\ \E u \in Users, len \in lens :
         /\ req' = [req EXCEPT ![p] = [kind |-> "sync", user |-> u, len |-> len, change |-> None]]
         /\ pc' = [pc EXCEPT ![p] = IF len = 0 THEN "done" ELSE "sync"]
    /\ UNCHANGED <<notes, results, doc, inflight, lostSaves, cache, cacheKeys, emitted,
                 invites, invite, now, joined,
                   collection, pageCache, walk>>

\* The change is null: change.localId throws in the try block and again in the
\* catch block, so the promise syncChanges returned rejects.
syncNullChange(p) ==
    /\ pc[p] = "sync"
    /\ \E c \in ChangesAt(Len(results[p]) + 1) : c.isNull
    /\ pc' = [pc EXCEPT ![p] = "rejected"]
    /\ UNCHANGED <<notes, req, results, doc, inflight, lostSaves, cache, cacheKeys, emitted,
                 invites, invite, now, joined,
                   collection, pageCache, walk>>

\* !change.op, or an op that is none of create, update, delete.
syncInvalidChangeWith(p, c) ==
    /\ pc[p] = "sync"
    /\ ~c.isNull
    /\ c.op \notin {"create", "update", "delete"}
    /\ Push(p, Outcome(c.localId, 0, "error",
                       IF c.op = Absent THEN "invalid change" ELSE "unknown op", None))
    /\ UNCHANGED <<notes, req, doc, inflight, lostSaves, cache, cacheKeys, emitted,
                 invites, invite, now, joined,
                   collection, pageCache, walk>>

syncInvalidChange(p) ==
    /\ pc[p] = "sync"
    /\ \E c \in ChangesAt(Len(results[p]) + 1) : syncInvalidChangeWith(p, c)

\* applyCreate up to `await doc.save()`; without a note payload note.title throws
\* a TypeError that the catch block of syncChanges turns into an error outcome.
applyCreateWith(p, c) ==
    /\ pc[p] = "sync"
    /\ ~c.isNull
    /\ c.op = "create"
    /\ \/ /\ ~c.hasNote
          /\ Push(p, Outcome(c.localId, 0, "error", "TypeError", None))
          /\ UNCHANGED <<doc, req>>
       \/ /\ c.hasNote
          /\ \E id \in FreeIds :
               /\ \A other \in FreeIds : id <= other
               /\ doc' = [doc EXCEPT ![p] =
                    Some(NewNote(id, req[p].user,
                                 IF "title" \in c.has THEN c.title ELSE "",
                                 IF "body" \in c.has THEN c.body ELSE "",
                                 IF "tags" \in c.has THEN c.tags ELSE <<>>,
                                 IF c.hasVersion THEN c.version ELSE 1))]
          /\ pc' = [pc EXCEPT ![p] = "create_save"]
          /\ Holding(p, c)
          /\ UNCHANGED results
    /\ UNCHANGED <<notes, inflight, lostSaves, cache, cacheKeys, emitted,
                 invites, invite, now, joined,
                   collection, pageCache, walk>>

applyCreate(p) ==
    /\ pc[p] = "sync"
    /\ \E c \in ChangesAt(Len(results[p]) + 1) : applyCreateWith(p, c)

\* `await doc.save()` of applyCreate answers: the insert, or a rejection caught
\* by syncChanges.
applyCreateSave(p) ==
    /\ pc[p] = "create_save"
    /\ LET d == doc[p][1] IN
       \/ /\ notes' = [notes EXCEPT ![d.id] = Some(Inserted(d))]
          /\ doc' = [doc EXCEPT ![p] = Some(Saved(d))]
          /\ pc' = [pc EXCEPT ![p] = "create_invalidate"]
          /\ UNCHANGED <<results, req>>
       \/ /\ Push(p, Outcome(req[p].change[1].localId, 0, "error", "store unavailable", None))
          /\ doc' = [doc EXCEPT ![p] = None]
          /\ Dropped(p)
          /\ UNCHANGED notes
    /\ UNCHANGED <<inflight, lostSaves, cache, cacheKeys, emitted,
                 invites, invite, now, joined,
                   collection, pageCache, walk>>

\* invalidateForUsers answers; applyCreate emits note:created and returns ok.
applyCreateInvalidate(p) ==
    /\ pc[p] = "create_invalidate"
    /\ LET d == doc[p][1] IN
       /\ invalidateForUsers(AffectedUsers(d))
       /\ Push(p, Outcome(req[p].change[1].localId, d.id, "ok", "", Some(Snapshot(d))))
    /\ doc' = [doc EXCEPT ![p] = None]
    /\ Dropped(p)
    /\ emitted' = [emitted EXCEPT ![p] = @ \o ToUsers(doc[p][1], "note:created", Json(doc[p][1]))]
    /\ UNCHANGED <<notes, inflight, lostSaves,
                 invites, invite, now, joined,
                   collection, pageCache, walk>>

\* applyUpdate up to `await doc.save()`: the id check, findOne({_id, deleted: false}),
\* the permission check, the version check and the field changes.
applyUpdateWith(p, c) ==
    /\ pc[p] = "sync"
    /\ ~c.isNull
    /\ c.op = "update"
    /\ BelowCap(c.id)
    /\ \/ /\ ~c.hasNote \/ c.id = 0
          /\ Push(p, Outcome(c.localId, 0, "error", "id required for update", None))
          /\ UNCHANGED <<doc, req>>
       \/ /\ c.hasNote /\ c.id # 0
          /\ Push(p, Outcome(c.localId, 0, "error", "store unavailable", None))
          /\ UNCHANGED <<doc, req>>
       \/ /\ c.hasNote /\ c.id # 0
          /\ ~Live(c.id)
          /\ Push(p, Outcome(c.localId, c.id, "error", "note not found", None))
          /\ UNCHANGED <<doc, req>>
       \/ /\ c.hasNote /\ c.id # 0
          /\ Live(c.id)
          /\ LET d == Hydrate(c.id, notes[c.id][1]) IN
             IF ~MayEdit(d, req[p].user)
             THEN /\ Push(p, Outcome(c.localId, c.id, "error", "no permission", None))
                  /\ UNCHANGED <<doc, req>>
             ELSE IF VersionConflict(c, d)
             THEN /\ Push(p, Outcome(c.localId, c.id, "conflict", "", Some(Snapshot(d))))
                  /\ UNCHANGED <<doc, req>>
             ELSE /\ doc' = [doc EXCEPT ![p] = Some(ApplyFields(d, c))]
                  /\ pc' = [pc EXCEPT ![p] = "update_save"]
                  /\ Holding(p, c)
                  /\ UNCHANGED results
    /\ UNCHANGED <<notes, inflight, lostSaves, cache, cacheKeys, emitted,
                 invites, invite, now, joined,
                   collection, pageCache, walk>>

applyUpdate(p) ==
    /\ pc[p] = "sync"
    /\ \E c \in ChangesAt(Len(results[p]) + 1) : applyUpdateWith(p, c)

\* An applyUpdate whose save writes before it reports that the store failed.
applyUpdateSave_WritesThenFails(p) ==
    /\ pc[p] = "update_save"
    /\ LET d == doc[p][1] IN
       \/ /\ ~VersionError(notes[d.id][1], d)
          /\ notes' = [notes EXCEPT ![d.id] = Some(Written(notes[d.id][1], d))]
          /\ doc' = [doc EXCEPT ![p] = Some(Saved(d))]
          /\ pc' = [pc EXCEPT ![p] = "update_invalidate"]
          /\ UNCHANGED <<results, req>>
       \/ /\ VersionError(notes[d.id][1], d)
          /\ Push(p, Outcome(req[p].change[1].localId, 0, "error", "VersionError", None))
          /\ doc' = [doc EXCEPT ![p] = None]
          /\ Dropped(p)
          /\ UNCHANGED notes
       \/ /\ Push(p, Outcome(req[p].change[1].localId, 0, "error", "store unavailable", None))
          /\ doc' = [doc EXCEPT ![p] = None]
          /\ Dropped(p)
          /\ notes' = [notes EXCEPT ![d.id] = Some(Written(notes[d.id][1], d))]
    /\ UNCHANGED <<inflight, lostSaves, cache, cacheKeys, emitted,
                 invites, invite, now, joined,
                   collection, pageCache, walk>>

\* `await doc.save()` of applyUpdate answers: the write, or a rejection (the store
\* failed, or a VersionError) caught by syncChanges.
applyUpdateSave(p) ==
    /\ pc[p] = "update_save"
    /\ LET d == doc[p][1] IN
       \/ /\ ~VersionError(notes[d.id][1], d)
          /\ notes' = [notes EXCEPT ![d.id] = Some(Written(notes[d.id][1], d))]
          /\ doc' = [doc EXCEPT ![p] = Some(Saved(d))]
          /\ pc' = [pc EXCEPT ![p] = "update_invalidate"]
          /\ UNCHANGED <<results, req>>
       \/ /\ VersionError(notes[d.id][1], d)
          /\ Push(p, Outcome(req[p].change[1].localId, 0, "error", "VersionError", None))
          /\ doc' = [doc EXCEPT ![p] = None]
          /\ Dropped(p)
          /\ UNCHANGED notes
       \/ /\ Push(p, Outcome(req[p].change[1].localId, 0, "error", "store unavailable", None))
          /\ doc' = [doc EXCEPT ![p] = None]
          /\ Dropped(p)
          /\ UNCHANGED notes
    /\ UNCHANGED <<inflight, lostSaves, cache, cacheKeys, emitted,
                 invites, invite, now, joined,
                   collection, pageCache, walk>>

\* invalidateForUsers answers; applyUpdate emits note:updated and returns ok.
applyUpdateInvalidate(p) ==
    /\ pc[p] = "update_invalidate"
    /\ LET d == doc[p][1] IN
       /\ invalidateForUsers(AffectedUsers(d))
       /\ Push(p, Outcome(req[p].change[1].localId, req[p].change[1].id, "ok", "",
                          Some(Snapshot(d))))
    /\ doc' = [doc EXCEPT ![p] = None]
    /\ Dropped(p)
    /\ emitted' = [emitted EXCEPT ![p] = @ \o ToUsers(doc[p][1], "note:updated", Json(doc[p][1]))
                                              \o ToNote(doc[p][1], "note:updated", Json(doc[p][1]))]
    /\ UNCHANGED <<notes, inflight, lostSaves,
                 invites, invite, now, joined,
                   collection, pageCache, walk>>

\* An applyDelete that queries the store before it looks at note.id.
applyDeleteWith_LoadsFirst(p, c) ==
    /\ pc[p] = "sync"
    /\ ~c.isNull
    /\ c.op = "delete"
    /\ BelowCap(c.id)
    /\ \/ /\ ~c.hasNote \/ c.id = 0
          /\ Push(p, Outcome(c.localId, 0, "error", "id required for delete", None))
          /\ UNCHANGED <<doc, req, inflight>>
       \/ /\ Push(p, Outcome(c.localId, 0, "error", "store unavailable", None))
          /\ UNCHANGED <<doc, req, inflight>>
       \/ /\ c.hasNote /\ c.id # 0
          /\ ~Live(c.id)
          /\ Push(p, Outcome(c.localId, c.id, "error", "note not found", None))
          /\ UNCHANGED <<doc, req, inflight>>
       \/ /\ c.hasNote /\ c.id # 0
          /\ Live(c.id)
          /\ LET d == Hydrate(c.id, notes[c.id][1]) IN
             IF ~MayEdit(d, req[p].user)
             THEN /\ Push(p, Outcome(c.localId, c.id, "error", "no permission", None))
                  /\ UNCHANGED <<doc, req, inflight>>
             ELSE /\ doc' = [doc EXCEPT ![p] = Some(softDelete(d))]
                  /\ inflight' = inflight \cup
                       {[proc |-> p, index |-> Len(results[p]) + 1, doc |-> softDelete(d)]}
                  /\ pc' = [pc EXCEPT ![p] = "delete_invalidate"]
                  /\ Holding(p, c)
                  /\ UNCHANGED results
    /\ UNCHANGED <<notes, lostSaves, cache, cacheKeys, emitted,
                 invites, invite, now, joined,
                   collection, pageCache, walk>>

\* applyDelete up to `await cacheService.invalidateForUsers(...)`: the id check,
\* findOne, the permission check and doc.softDelete(), whose promise is dropped.
applyDeleteWith(p, c) ==
    /\ pc[p] = "sync"
    /\ ~c.isNull
    /\ c.op = "delete"
    /\ BelowCap(c.id)
    /\ \/ /\ ~c.hasNote \/ c.id = 0
          /\ Push(p, Outcome(c.localId, 0, "error", "id required for delete", None))
          /\ UNCHANGED <<doc, req, inflight>>
       \/ /\ c.hasNote /\ c.id # 0
          /\ Push(p, Outcome(c.localId, 0, "error", "store unavailable", None))
          /\ UNCHANGED <<doc, req, inflight>>
       \/ /\ c.hasNote /\ c.id # 0
          /\ ~Live(c.id)
          /\ Push(p, Outcome(c.localId, c.id, "error", "note not found", None))
          /\ UNCHANGED <<doc, req, inflight>>
       \/ /\ c.hasNote /\ c.id # 0
          /\ Live(c.id)
          /\ LET d == Hydrate(c.id, notes[c.id][1]) IN
             IF ~MayEdit(d, req[p].user)
             THEN /\ Push(p, Outcome(c.localId, c.id, "error", "no permission", None))
                  /\ UNCHANGED <<doc, req, inflight>>
             ELSE /\ doc' = [doc EXCEPT ![p] = Some(softDelete(d))]
                  /\ inflight' = inflight \cup
                       {[proc |-> p, index |-> Len(results[p]) + 1, doc |-> softDelete(d)]}
                  /\ pc' = [pc EXCEPT ![p] = "delete_invalidate"]
                  /\ Holding(p, c)
                  /\ UNCHANGED results
    /\ UNCHANGED <<notes, lostSaves, cache, cacheKeys, emitted,
                 invites, invite, now, joined,
                   collection, pageCache, walk>>

applyDelete(p) ==
    /\ pc[p] = "sync"
    /\ \E c \in ChangesAt(Len(results[p]) + 1) : applyDeleteWith(p, c)

\* invalidateForUsers answers; applyDelete emits note:deleted and returns ok
\* without a serverNote.
applyDeleteInvalidate(p) ==
    /\ pc[p] = "delete_invalidate"
    /\ LET d == doc[p][1] IN
       /\ invalidateForUsers(AffectedUsers(d))
       /\ Push(p, Outcome(req[p].change[1].localId, req[p].change[1].id, "ok", "", None))
    /\ doc' = [doc EXCEPT ![p] = None]
    /\ Dropped(p)
    /\ emitted' = [emitted EXCEPT ![p] = @ \o ToUsers(doc[p][1], "note:deleted", IdOnly(doc[p][1]))
                                              \o ToNote(doc[p][1], "note:deleted", IdOnly(doc[p][1]))]
    /\ UNCHANGED <<notes, inflight, lostSaves,
                 invites, invite, now, joined,
                   collection, pageCache, walk>>

\* The save() that softDelete started in applyDelete answers, whenever it does:
\* the write, or a rejection nobody handles.
floatingSave(s) ==
    /\ s \in inflight
    /\ inflight' = inflight \ {s}
    /\ \/ /\ ~VersionError(notes[s.doc.id][1], s.doc)
          /\ notes' = [notes EXCEPT ![s.doc.id] = Some(Written(notes[s.doc.id][1], s.doc))]
          /\ UNCHANGED lostSaves
       \/ /\ lostSaves' = lostSaves \cup {<<s.proc, s.index>>}
          /\ UNCHANGED notes
    /\ UNCHANGED <<pc, req, results, doc, cache, cacheKeys, emitted,
                 invites, invite, now, joined,
                   collection, pageCache, walk>>

\* ------------------------------------------- controllers/noteController.js

\* The response of a single-change endpoint: the HTTP status stands where a
\* batch outcome has its correlation id.
Http(code) == <<"http", code>>

\* res.status(code).json(...): the request is answered.
Respond(p, r) ==
    /\ results' = [results EXCEPT ![p] = Append(@, r)]
    /\ pc' = [pc EXCEPT ![p] = "done"]

\* The body of PUT /:id as a change: {title, body, tags, version}.
Body(vin, fields) == Change("update", TRUE, 0, vin, fields, 0)

\* createNote up to `await note.save()`: version is always 1.
createNote(p) ==
    /\ pc[p] = "idle"
    /\ \E u \in Users, f \in Payloads, id \in FreeIds :
         /\ \A other \in FreeIds : id <= other
         /\ req' = [req EXCEPT ![p] = [kind |-> "createNote", user |-> u, len |-> 1, change |-> None]]
         /\ doc' = [doc EXCEPT ![p] =
              Some(NewNote(id, u,
                           IF "title" \in f.has THEN f.title ELSE "",
                           IF "body" \in f.has THEN f.body ELSE "",
                           IF "tags" \in f.has THEN f.tags ELSE <<>>, 1))]
         /\ pc' = [pc EXCEPT ![p] = "createNote_save"]
    /\ UNCHANGED <<notes, results, inflight, lostSaves, cache, cacheKeys, emitted,
                 invites, invite, now, joined,
                   collection, pageCache, walk>>

\* `await note.save()` of createNote answers: the insert, or 500.
createNoteSave(p) ==
    /\ pc[p] = "createNote_save"
    /\ LET d == doc[p][1] IN
       \/ /\ notes' = [notes EXCEPT ![d.id] = Some(Inserted(d))]
          /\ doc' = [doc EXCEPT ![p] = Some(Saved(d))]
          /\ pc' = [pc EXCEPT ![p] = "createNote_invalidate"]
          /\ UNCHANGED results
       \/ /\ Respond(p, Outcome(Http(500), 0, "error", "Server error", None))
          /\ doc' = [doc EXCEPT ![p] = None]
          /\ UNCHANGED notes
    /\ UNCHANGED <<req, inflight, lostSaves, cache, cacheKeys, emitted,
                 invites, invite, now, joined,
                   collection, pageCache, walk>>

\* invalidateForUsers(userId) answers; createNote emits and answers 201.
createNoteInvalidate(p) ==
    /\ pc[p] = "createNote_invalidate"
    /\ LET d == doc[p][1] IN
       /\ invalidateForUsers({req[p].user})
       /\ Respond(p, Outcome(Http(201), d.id, "ok", "", Some(Snapshot(d))))
    /\ doc' = [doc EXCEPT ![p] = None]
    /\ emitted' = [emitted EXCEPT ![p] =
                      @ \o <<emitToUser(req[p].user, "note:created", Json(doc[p][1]))>>]
    /\ UNCHANGED <<notes, req, inflight, lostSaves,
                 invites, invite, now, joined,
                   collection, pageCache, walk>>

\* updateNote up to `await note.save()`: findById, the deleted check, the
\* permission check, the version check and the field changes.
updateNoteWith(p, u, id, vin, f) ==
    /\ pc[p] = "idle"
    /\ BelowCap(id)
    /\ req' = [req EXCEPT ![p] = [kind |-> "updateNote", user |-> u, len |-> 1, change |-> None]]
    /\ \/ /\ Respond(p, Outcome(Http(500), id, "error", "Server error", None))
          /\ UNCHANGED doc
       \/ /\ ~Live(id)
          /\ Respond(p, Outcome(Http(404), id, "error", "Note not found", None))
          /\ UNCHANGED doc
       \/ /\ Live(id)
          /\ LET d == Hydrate(id, notes[id][1]) IN
             IF ~MayEdit(d, u)
             THEN /\ Respond(p, Outcome(Http(403), id, "error", "Access denied", None))
                  /\ UNCHANGED doc
             ELSE IF VersionConflict(Body(vin, f), d)
             THEN /\ Respond(p, Outcome(Http(409), id, "conflict", "Version conflict",
                                        Some(Snapshot(d))))
                  /\ UNCHANGED doc
             ELSE /\ doc' = [doc EXCEPT ![p] = Some(ApplyFields(d, Body(vin, f)))]
                  /\ pc' = [pc EXCEPT ![p] = "updateNote_save"]
                  /\ UNCHANGED results
    /\ UNCHANGED <<notes, inflight, lostSaves, cache, cacheKeys, emitted,
                 invites, invite, now, joined,
                   collection, pageCache, walk>>

updateNote(p) ==
    /\ pc[p] = "idle"
    /\ \E u \in Users, id \in NoteIds, vin \in VersionInputs, f \in Payloads :
         updateNoteWith(p, u, id, vin, f)

\* `await note.save()` of updateNote answers: the write, or 500.
updateNoteSave(p) ==
    /\ pc[p] = "updateNote_save"
    /\ LET d == doc[p][1] IN
       \/ /\ ~VersionError(notes[d.id][1], d)
          /\ notes' = [notes EXCEPT ![d.id] = Some(Written(notes[d.id][1], d))]
          /\ doc' = [doc EXCEPT ![p] = Some(Saved(d))]
          /\ pc' = [pc EXCEPT ![p] = "updateNote_invalidate"]
          /\ UNCHANGED results
       \/ /\ Respond(p, Outcome(Http(500), d.id, "error", "Server error", None))
          /\ doc' = [doc EXCEPT ![p] = None]
          /\ UNCHANGED notes
    /\ UNCHANGED <<req, inflight, lostSaves, cache, cacheKeys, emitted,
                 invites, invite, now, joined,
                   collection, pageCache, walk>>

\* invalidateForUsers answers; updateNote emits note:updated and answers 200.
updateNoteInvalidate(p) ==
    /\ pc[p] = "updateNote_invalidate"
    /\ LET d == doc[p][1] IN
       /\ invalidateForUsers(AffectedUsers(d))
       /\ Respond(p, Outcome(Http(200), d.id, "ok", "", Some(Snapshot(d))))
    /\ doc' = [doc EXCEPT ![p] = None]
    /\ emitted' = [emitted EXCEPT ![p] = @ \o ToUsers(doc[p][1], "note:updated", Json(doc[p][1]))
                                              \o ToNote(doc[p][1], "note:updated", Json(doc[p][1]))]
    /\ UNCHANGED <<notes, req, inflight, lostSaves,
                 invites, invite, now, joined,
                   collection, pageCache, walk>>

\* deleteNote up to `await note.softDelete()`.
deleteNote(p) ==
    /\ pc[p] = "idle"
    /\ \E u \in Users, id \in NoteIds :
         /\ BelowCap(id)
         /\ req' = [req EXCEPT ![p] = [kind |-> "deleteNote", user |-> u, len |-> 1, change |-> None]]
         /\ \/ /\ Respond(p, Outcome(Http(500), id, "error", "Server error", None))
               /\ UNCHANGED doc
            \/ /\ ~Live(id)
               /\ Respond(p, Outcome(Http(404), id, "error", "Note not found", None))
               /\ UNCHANGED doc
            \/ /\ Live(id)
               /\ LET d == Hydrate(id, notes[id][1]) IN
                  IF ~MayEdit(d, u)
                  THEN /\ Respond(p, Outcome(Http(403), id, "error", "Access denied", None))
                       /\ UNCHANGED doc
                  ELSE /\ doc' = [doc EXCEPT ![p] = Some(softDelete(d))]
                       /\ pc' = [pc EXCEPT ![p] = "deleteNote_save"]
                       /\ UNCHANGED results
    /\ UNCHANGED <<notes, inflight, lostSaves, cache, cacheKeys, emitted,
                 invites, invite, now, joined,
                   collection, pageCache, walk>>

\* `await note.softDelete()` of deleteNote answers: the write, or 500.
deleteNoteSave(p) ==
    /\ pc[p] = "deleteNote_save"
    /\ LET d == doc[p][1] IN
       \/ /\ ~VersionError(notes[d.id][1], d)
          /\ notes' = [notes EXCEPT ![d.id] = Some(Written(notes[d.id][1], d))]
          /\ doc' = [doc EXCEPT ![p] = Some(Saved(d))]
          /\ pc' = [pc EXCEPT ![p] = "deleteNote_invalidate"]
          /\ UNCHANGED results
       \/ /\ Respond(p, Outcome(Http(500), d.id, "error", "Server error", None))
          /\ doc' = [doc EXCEPT ![p] = None]
          /\ UNCHANGED notes
    /\ UNCHANGED <<req, inflight, lostSaves, cache, cacheKeys, emitted,
                 invites, invite, now, joined,
                   collection, pageCache, walk>>

\* invalidateForUsers answers; deleteNote emits note:deleted and answers {ok: true}.
deleteNoteInvalidate(p) ==
    /\ pc[p] = "deleteNote_invalidate"
    /\ LET d == doc[p][1] IN
       /\ invalidateForUsers(AffectedUsers(d))
       /\ Respond(p, Outcome(Http(200), d.id, "ok", "", None))
    /\ doc' = [doc EXCEPT ![p] = None]
    /\ emitted' = [emitted EXCEPT ![p] = @ \o ToUsers(doc[p][1], "note:deleted", IdOnly(doc[p][1]))
                                              \o ToNote(doc[p][1], "note:deleted", IdOnly(doc[p][1]))]
    /\ UNCHANGED <<notes, req, inflight, lostSaves,
                 invites, invite, now, joined,
                   collection, pageCache, walk>>

\* ------------------------------------------ services/permissionService.js

\* A shareNote without the comparison of note.owner with ownerId.
shareNoteWith_AnyCaller(p, u, id, target, permission) ==
    /\ pc[p] = "idle"
    /\ req' = [req EXCEPT ![p] = [kind |-> "shareNote", user |-> u, len |-> 1, change |-> None]]
    /\ \/ /\ Respond(p, Outcome(Http(500), id, "error", "store unavailable", None))
          /\ UNCHANGED doc
       \/ /\ notes[id] = None
          /\ Respond(p, Outcome(Http(500), id, "error", "Note not found", None))
          /\ UNCHANGED doc
       \/ /\ notes[id] # None
          /\ doc' = [doc EXCEPT ![p] =
                       Some(shareWith(Hydrate(id, notes[id][1]), target, permission))]
          /\ pc' = [pc EXCEPT ![p] = "shareNote_save"]
          /\ UNCHANGED results
    /\ UNCHANGED <<notes, inflight, lostSaves, cache, cacheKeys, emitted,
                 invites, invite, now, joined,
                   collection, pageCache, walk>>

\* shareNote up to the save() inside note.shareWith: findById (no deleted
\* filter), the owner check, the new sharing list.
shareNoteWith(p, u, id, target, permission) ==
    /\ pc[p] = "idle"
    /\ req' = [req EXCEPT ![p] = [kind |-> "shareNote", user |-> u, len |-> 1, change |-> None]]
    /\ \/ /\ Respond(p, Outcome(Http(500), id, "error", "store unavailable", None))
          /\ UNCHANGED doc
       \/ /\ notes[id] = None
          /\ Respond(p, Outcome(Http(500), id, "error", "Note not found", None))
          /\ UNCHANGED doc
       \/ /\ notes[id] # None
          /\ LET d == Hydrate(id, notes[id][1]) IN
             IF d.owner # u
             THEN /\ Respond(p, Outcome(Http(500), id, "error",
                                        "Only the owner can share this note", None))
                  /\ UNCHANGED doc
             ELSE /\ doc' = [doc EXCEPT ![p] = Some(shareWith(d, target, permission))]
                  /\ pc' = [pc EXCEPT ![p] = "shareNote_save"]
                  /\ UNCHANGED results
    /\ UNCHANGED <<notes, inflight, lostSaves, cache, cacheKeys, emitted,
                 invites, invite, now, joined,
                   collection, pageCache, walk>>

shareNote(p) ==
    /\ pc[p] = "idle"
    /\ \E u \in Users, id \in NoteIds, target \in Users, permission \in {"read", "edit"} :
         shareNoteWith(p, u, id, target, permission)

\* The save() of shareWith answers.  After the write shareNote calls
\* websocketService.notifyUser, which websocketService does not export: the
\* call throws a TypeError and the route answers with an error.
shareNoteSave(p) ==
    /\ pc[p] = "shareNote_save"
    /\ LET d == doc[p][1] IN
       \/ /\ ~VersionError(notes[d.id][1], d)
          /\ notes' = [notes EXCEPT ![d.id] = Some(Written(notes[d.id][1], d))]
          /\ Respond(p, Outcome(Http(500), d.id, "error", "notifyUser is not a function", None))
       \/ /\ VersionError(notes[d.id][1], d)
          /\ Respond(p, Outcome(Http(500), d.id, "error", "VersionError", None))
          /\ UNCHANGED notes
       \/ /\ Respond(p, Outcome(Http(500), d.id, "error", "store unavailable", None))
          /\ UNCHANGED notes
    /\ doc' = [doc EXCEPT ![p] = None]
    /\ UNCHANGED <<req, inflight, lostSaves, cache, cacheKeys, emitted,
                 invites, invite, now, joined,
                   collection, pageCache, walk>>

\* revokeAccess up to the save() inside note.unshareWith; when the user has no
\* entry unshareWith returns without saving and notifyUser throws at once.
revokeAccessWith(p, u, id, target) ==
    /\ pc[p] = "idle"
    /\ req' = [req EXCEPT ![p] = [kind |-> "revokeAccess", user |-> u, len |-> 1, change |-> None]]
    /\ \/ /\ Respond(p, Outcome(Http(500), id, "error", "store unavailable", None))
          /\ UNCHANGED doc
       \/ /\ notes[id] = None
          /\ Respond(p, Outcome(Http(500), id, "error", "Note not found", None))
          /\ UNCHANGED doc
       \/ /\ notes[id] # None
          /\ LET d == Hydrate(id, notes[id][1]) IN
             IF d.owner # u
             THEN /\ Respond(p, Outcome(Http(500), id, "error",
                                        "Only the owner can revoke access", None))
                  /\ UNCHANGED doc
             ELSE IF Len(WithoutUser(d.sharedWith, target)) = Len(d.sharedWith)
             THEN /\ Respond(p, Outcome(Http(500), id, "error",
                                        "notifyUser is not a function", None))
                  /\ UNCHANGED doc
             ELSE /\ doc' = [doc EXCEPT ![p] = Some(unshareWith(d, target))]
                  /\ pc' = [pc EXCEPT ![p] = "revokeAccess_save"]
                  /\ UNCHANGED results
    /\ UNCHANGED <<notes, inflight, lostSaves, cache, cacheKeys, emitted,
                 invites, invite, now, joined,
                   collection, pageCache, walk>>

revokeAccess(p) ==
    /\ pc[p] = "idle"
    /\ \E u \in Users, id \in NoteIds, target \in Users :
         revokeAccessWith(p, u, id, target)

\* The save() of unshareWith answers; then notifyUser throws as in shareNote.
revokeAccessSave(p) ==
    /\ pc[p] = "revokeAccess_save"
    /\ LET d == doc[p][1] IN
       \/ /\ ~VersionError(notes[d.id][1], d)
          /\ notes' = [notes EXCEPT ![d.id] = Some(Written(notes[d.id][1], d))]
          /\ Respond(p, Outcome(Http(500), d.id, "error", "notifyUser is not a function", None))
       \/ /\ VersionError(notes[d.id][1], d)
          /\ Respond(p, Outcome(Http(500), d.id, "error", "VersionError", None))
          /\ UNCHANGED notes
       \/ /\ Respond(p, Outcome(Http(500), d.id, "error", "store unavailable", None))
          /\ UNCHANGED notes
    /\ doc' = [doc EXCEPT ![p] = None]
    /\ UNCHANGED <<req, inflight, lostSaves, cache, cacheKeys, emitted,
                 invites, invite, now, joined,
                   collection, pageCache, walk>>

\* setPublic up to `await note.save()`.
setPublicWith(p, u, id, isPublic) ==
    /\ pc[p] = "idle"
    /\ req' = [req EXCEPT ![p] = [kind |-> "setPublic", user |-> u, len |-> 1, change |-> None]]
    /\ \/ /\ Respond(p, Outcome(Http(500), id, "error", "store unavailable", None))
          /\ UNCHANGED doc
       \/ /\ notes[id] = None
          /\ Respond(p, Outcome(Http(500), id, "error", "Note not found", None))
          /\ UNCHANGED doc
       \/ /\ notes[id] # None
          /\ LET d == Hydrate(id, notes[id][1]) IN
             IF d.owner # u
             THEN /\ Respond(p, Outcome(Http(500), id, "error",
                                        "Only the owner can toggle public access", None))
                  /\ UNCHANGED doc
             ELSE /\ doc' = [doc EXCEPT ![p] = Some(SetPath(d, "isPublic", isPublic))]
                  /\ pc' = [pc EXCEPT ![p] = "setPublic_save"]
                  /\ UNCHANGED results
    /\ UNCHANGED <<notes, inflight, lostSaves, cache, cacheKeys, emitted,
                 invites, invite, now, joined,
                   collection, pageCache, walk>>

setPublic(p) ==
    /\ pc[p] = "idle"
    /\ \E u \in Users, id \in NoteIds, isPublic \in BOOLEAN :
         setPublicWith(p, u, id, isPublic)

\* `await note.save()` of setPublic answers; the route answers with the note.
setPublicSave(p) ==
    /\ pc[p] = "setPublic_save"
    /\ LET d == doc[p][1] IN
       \/ /\ ~VersionError(notes[d.id][1], d)
          /\ notes' = [notes EXCEPT ![d.id] = Some(Written(notes[d.id][1], d))]
          /\ Respond(p, Outcome(Http(200), d.id, "ok", "", Some(Snapshot(Saved(d)))))
       \/ /\ Respond(p, Outcome(Http(500), d.id, "error", "store unavailable", None))
          /\ UNCHANGED notes
    /\ doc' = [doc EXCEPT ![p] = None]
    /\ UNCHANGED <<req, inflight, lostSaves, cache, cacheKeys, emitted,
                 invites, invite, now, joined,
                   collection, pageCache, walk>>

\* The cache key of the first page of the list of user u.
CacheKey(u) == <<"notes", u, "start">>

\* Note.find({owner: userId, deleted: false}): the page getNotes builds.
Payload(u) ==
    {Snapshot(Hydrate(id, notes[id][1])) :
        id \in {i \in NoteIds :
                  IF notes[i] = None THEN FALSE
                  ELSE notes[i][1].owner = u /\ ~notes[i][1].deleted}}

\* getNotes up to the database query: a cached page is answered as it is; a
\* miss (or a failed cache read, which getJSON turns into null) goes on.
getNotes(p) ==
    /\ pc[p] = "idle"
    /\ \E u \in Users :
         /\ req' = [req EXCEPT ![p] = [kind |-> "getNotes", user |-> u, len |-> 1, change |-> None]]
         /\ \/ /\ cache[CacheKey(u)] # None
               /\ Respond(p, Outcome(Http(200), 0, "ok", "cached", cache[CacheKey(u)]))
            \/ /\ pc' = [pc EXCEPT ![p] = "getNotes_find"]
               /\ UNCHANGED results
    /\ UNCHANGED <<notes, doc, inflight, lostSaves, cache, cacheKeys, emitted,
                 invites, invite, now, joined,
                   collection, pageCache, walk>>

\* `await Note.find(query)...lean()` answers.
getNotesFind(p) ==
    /\ pc[p] = "getNotes_find"
    /\ \/ /\ doc' = [doc EXCEPT ![p] = Some(Payload(req[p].user))]
          /\ pc' = [pc EXCEPT ![p] = "getNotes_set"]
          /\ UNCHANGED results
       \/ /\ Respond(p, Outcome(Http(500), 0, "error", "Server error", None))
          /\ UNCHANGED doc
    /\ UNCHANGED <<notes, req, inflight, lostSaves, cache, cacheKeys, emitted,
                 invites, invite, now, joined,
                   collection, pageCache, walk>>

\* `await cacheService.setJSON(cacheKey, payload)` answers: stored, or not
\* when Redis fails.
getNotesSet(p) ==
    /\ pc[p] = "getNotes_set"
    /\ \/ cache' = [cache EXCEPT ![CacheKey(req[p].user)] = doc[p]]
       \/ UNCHANGED cache
    /\ pc' = [pc EXCEPT ![p] = "getNotes_track"]
    /\ UNCHANGED <<notes, req, results, doc, inflight, lostSaves, cacheKeys, emitted,
                 invites, invite, now, joined,
                   collection, pageCache, walk>>

\* `await cacheService.addCacheKeyForUser(userId, cacheKey)` answers: the key
\* is tracked, or not when Redis fails; then the page is answered.
getNotesTrack(p) ==
    /\ pc[p] = "getNotes_track"
    /\ \/ cacheKeys' = [cacheKeys EXCEPT ![req[p].user] = @ \cup {CacheKey(req[p].user)}]
       \/ UNCHANGED cacheKeys
    /\ Respond(p, Outcome(Http(200), 0, "ok", "", doc[p]))
    /\ doc' = [doc EXCEPT ![p] = None]
    /\ UNCHANGED <<notes, req, inflight, lostSaves, cache, emitted,
                 invites, invite, now, joined,
                   collection, pageCache, walk>>

\* redis.set(key, str, 'EX', 60): a cached page expires.
cacheExpires(u) ==
    /\ cache[CacheKey(u)] # None
    /\ cache' = [cache EXCEPT ![CacheKey(u)] = None]
    /\ UNCHANGED <<notes, pc, req, results, doc, inflight, lostSaves, cacheKeys, emitted,
                 invites, invite, now, joined,
                   collection, pageCache, walk>>

\* The client of an answered request sends its next request.
nextRequest(p) ==
    /\ pc[p] = "done"
    /\ pc' = [pc EXCEPT ![p] = "idle"]
    /\ results' = [results EXCEPT ![p] = <<>>]
    /\ req' = [req EXCEPT ![p] = [kind |-> "none", user |-> "", len |-> 0, change |-> None]]
    /\ emitted' = [emitted EXCEPT ![p] = <<>>]
    /\ UNCHANGED <<notes, doc, inflight, lostSaves, cache, cacheKeys,
                 invites, invite, now, joined,
                   collection, pageCache, walk>>

\* PermissionService.getRole(noteId, userId, required): findById (no deleted
\* filter), then note.hasPermission(userId, required); null without a note.
getRoleWith(p, u, id, required) ==
    /\ pc[p] = "idle"
    /\ req' = [req EXCEPT ![p] = [kind |-> "getRole", user |-> u, len |-> 1, change |-> None]]
    /\ \/ Respond(p, Outcome(<<"role", required>>, id, "error", "store unavailable", None))
       \/ /\ notes[id] = None
          /\ Respond(p, Outcome(<<"role", required>>, id, "none", "", None))
       \/ /\ notes[id] # None
          /\ Respond(p, Outcome(<<"role", required>>, id,
                                hasPermission(Hydrate(id, notes[id][1]), u, required), "", None))
    /\ UNCHANGED <<notes, doc, inflight, lostSaves, cache, cacheKeys, emitted,
                 invites, invite, now, joined,
                   collection, pageCache, walk>>

getRole(p) ==
    /\ pc[p] = "idle"
    /\ \E u \in Askers, id \in NoteIds, required \in RequiredLevels :
         getRoleWith(p, u, id, required)

\* ------------------------------------------------------- models/Invite.js

\* The invite tokens the server hands out (genTokenPlain), each standing for
\* its own hash as well, and a token the server never issued.
Tokens == {"t1"}
Forged == "forged"

\* The e-mail addresses that requests carry; None is no e-mail at all.
Emails == {"a@x.io", " A@X.io ", "b@x.io"}

\* String(email).trim().toLowerCase()
Normalized(email) == IF email = " A@X.io " THEN "a@x.io" ELSE email

\* The ttlMs of an invite request: 0 is none, else the lifetime on the clock.
Ttls == {0, 1}

\* new this({...}) in createInvite.
NewInvite(token, noteId, inviterId, permission, email, ttlMs) ==
    [token |-> token, note |-> noteId, inviter |-> inviterId,
     email |-> IF email = None THEN None ELSE Some(Normalized(email[1])),
     permission |-> IF permission = "edit" THEN "edit" ELSE "read",
     expiresAt |-> IF ttlMs = 0 THEN None ELSE Some(now + ttlMs),
     used |-> FALSE]

\* An expiry check that lets a token live one tick past its deadline.
Expired_OneTickLate(i) == IF i.expiresAt = None THEN FALSE ELSE i.expiresAt[1] + 1 < now

\* invite.expiresAt && invite.expiresAt < new Date()
Expired(i) == IF i.expiresAt = None THEN FALSE ELSE i.expiresAt[1] < now

\* The e-mail checks without the branch for a request that carries no e-mail.
EmailError_MissingAccepted(i, acceptorEmail) ==
    IF i.email # None /\ acceptorEmail # None
    THEN IF Normalized(i.email[1]) # Normalized(acceptorEmail[1])
         THEN "Invite restricted to different email"
         ELSE ""
    ELSE ""

\* The e-mail checks of consumeInvite: the error they throw, or "" when they pass.
EmailError(i, acceptorEmail) ==
    IF i.email # None /\ acceptorEmail # None
    THEN IF Normalized(i.email[1]) # Normalized(acceptorEmail[1])
         THEN "Invite restricted to different email"
         ELSE ""
    ELSE IF i.email # None /\ acceptorEmail = None
    THEN "Invite requires matching email"
    ELSE ""

\* The tokens no invite has been stored under.
FreeTokens == {t \in Tokens : invites[t] = None}

\* POST /:id/invite up to `await doc.save()` in Invite.createInvite: the route
\* passes req.user.id as inviterId and req.params.id as noteId, and looks at
\* no note.
createInviteWith(p, u, id, permission, email, ttlMs) ==
    /\ pc[p] = "idle"
    /\ now + ttlMs <= MaxNow
    /\ \E t \in FreeTokens :
         invite' = [invite EXCEPT ![p] = Some(NewInvite(t, id, u, permission, email, ttlMs))]
    /\ req' = [req EXCEPT ![p] = [kind |-> "createInvite", user |-> u, len |-> 1, change |-> None]]
    /\ pc' = [pc EXCEPT ![p] = "createInvite_save"]
    /\ UNCHANGED <<notes, results, doc, inflight, lostSaves, cache, cacheKeys, emitted,
                   invites, now, joined,
                   collection, pageCache, walk>>

createInvite(p) ==
    /\ pc[p] = "idle"
    /\ \E u \in Users, id \in NoteIds, permission \in {"read", "edit", "admin"},
          email \in {None} \cup {Some(e) : e \in Emails}, ttlMs \in Ttls :
         createInviteWith(p, u, id, permission, email, ttlMs)

\* `await doc.save()` of createInvite answers: the invite is stored and the
\* route returns its token, or the store failed.
createInviteSave(p) ==
    /\ pc[p] = "createInvite_save"
    /\ LET i == invite[p][1] IN
       \/ /\ invites' = [invites EXCEPT ![i.token] = Some(i)]
          /\ Respond(p, Outcome(Http(200), i.note, "ok", "", Some(i.token)))
       \/ /\ Respond(p, Outcome(Http(500), i.note, "error", "store unavailable", None))
          /\ UNCHANGED invites
    /\ invite' = [invite EXCEPT ![p] = None]
    /\ UNCHANGED <<notes, req, doc, inflight, lostSaves, cache, cacheKeys, emitted, now, joined,
                   collection, pageCache, walk>>

\* A consumeInvite without its `if (invite.used)` line.
acceptInviteWith_NoUsedCheck(p, u, token, email) ==
    /\ pc[p] = "idle"
    /\ req' = [req EXCEPT ![p] = [kind |-> "acceptInvite", user |-> u, len |-> 1, change |-> None]]
    /\ \/ /\ Respond(p, Outcome(Http(500), 0, "error", "store unavailable", None))
          /\ UNCHANGED invite
       \/ /\ IF token \in Tokens THEN invites[token] = None ELSE TRUE
          /\ Respond(p, Outcome(Http(500), 0, "error", "Invalid invite token", None))
          /\ UNCHANGED invite
       \/ /\ IF token \in Tokens THEN invites[token] # None ELSE FALSE
          /\ LET i == invites[token][1] IN
             IF FALSE
             THEN /\ Respond(p, Outcome(Http(500), i.note, "error", "Invite already used", None))
                  /\ UNCHANGED invite
             ELSE IF Expired(i)
             THEN /\ invite' = [invite EXCEPT ![p] = Some([i EXCEPT !.used = TRUE])]
                  /\ pc' = [pc EXCEPT ![p] = "accept_expired_save"]
                  /\ UNCHANGED results
             ELSE IF EmailError(i, email) # ""
             THEN /\ Respond(p, Outcome(Http(500), i.note, "error", EmailError(i, email), None))
                  /\ UNCHANGED invite
             ELSE /\ invite' = [invite EXCEPT ![p] = Some([i EXCEPT !.used = TRUE])]
                  /\ pc' = [pc EXCEPT ![p] = "accept_used_save"]
                  /\ UNCHANGED results
    /\ UNCHANGED <<notes, doc, inflight, lostSaves, cache, cacheKeys, emitted, invites, now, joined,
                   collection, pageCache, walk>>

\* POST /invite/accept up to the first save() of Invite.consumeInvite:
\* findOne({tokenHash}), the used check, the expiry check, the e-mail checks.
acceptInviteWith(p, u, token, email) ==
    /\ pc[p] = "idle"
    /\ req' = [req EXCEPT ![p] = [kind |-> "acceptInvite", user |-> u, len |-> 1, change |-> None]]
    /\ \/ /\ Respond(p, Outcome(Http(500), 0, "error", "store unavailable", None))
          /\ UNCHANGED invite
       \/ /\ IF token \in Tokens THEN invites[token] = None ELSE TRUE
          /\ Respond(p, Outcome(Http(500), 0, "error", "Invalid invite token", None))
          /\ UNCHANGED invite
       \/ /\ IF token \in Tokens THEN invites[token] # None ELSE FALSE
          /\ LET i == invites[token][1] IN
             IF i.used
             THEN /\ Respond(p, Outcome(Http(500), i.note, "error", "Invite already used", None))
                  /\ UNCHANGED invite
             ELSE IF Expired(i)
             THEN /\ invite' = [invite EXCEPT ![p] = Some([i EXCEPT !.used = TRUE])]
                  /\ pc' = [pc EXCEPT ![p] = "accept_expired_save"]
                  /\ UNCHANGED results
             ELSE IF EmailError(i, email) # ""
             THEN /\ Respond(p, Outcome(Http(500), i.note, "error", EmailError(i, email), None))
                  /\ UNCHANGED invite
             ELSE /\ invite' = [invite EXCEPT ![p] = Some([i EXCEPT !.used = TRUE])]
                  /\ pc' = [pc EXCEPT ![p] = "accept_used_save"]
                  /\ UNCHANGED results
    /\ UNCHANGED <<notes, doc, inflight, lostSaves, cache, cacheKeys, emitted, invites, now, joined,
                   collection, pageCache, walk>>

acceptInvite(p) ==
    /\ pc[p] = "idle"
    /\ \E u \in Users, token \in Tokens \cup {Forged},
          email \in {None} \cup {Some(e) : e \in Emails} :
         acceptInviteWith(p, u, token, email)

\* `await invite.save().catch(() => {})` of an expired invite answers: used is
\* written, or the failure is swallowed; consumeInvite throws either way.
acceptInviteExpired(p) ==
    /\ pc[p] = "accept_expired_save"
    /\ LET i == invite[p][1] IN
       /\ \/ invites' = [invites EXCEPT ![i.token] = Some([invites[i.token][1] EXCEPT !.used = TRUE])]
          \/ UNCHANGED invites
       /\ Respond(p, Outcome(Http(500), i.note, "error", "Invite expired", None))
    /\ invite' = [invite EXCEPT ![p] = None]
    /\ UNCHANGED <<notes, req, doc, inflight, lostSaves, cache, cacheKeys, emitted, now, joined,
                   collection, pageCache, walk>>

\* A consumeInvite that returns the invite without having stored the mark.
acceptInviteUsed_NoWrite(p) ==
    /\ pc[p] = "accept_used_save"
    /\ LET i == invite[p][1] IN
       \/ /\ pc' = [pc EXCEPT ![p] = "accept_share"]
          /\ UNCHANGED <<results, invite, invites>>
       \/ /\ Respond(p, Outcome(Http(500), i.note, "error", "store unavailable", None))
          /\ invite' = [invite EXCEPT ![p] = None]
          /\ UNCHANGED invites
    /\ UNCHANGED <<notes, req, doc, inflight, lostSaves, cache, cacheKeys, emitted, now, joined,
                   collection, pageCache, walk>>

\* `await invite.save()` at the end of consumeInvite answers: used is written
\* and the invite is returned to the route, or the store failed.
acceptInviteUsed(p) ==
    /\ pc[p] = "accept_used_save"
    /\ LET i == invite[p][1] IN
       \/ /\ invites' = [invites EXCEPT ![i.token] = Some([invites[i.token][1] EXCEPT !.used = TRUE])]
          /\ pc' = [pc EXCEPT ![p] = "accept_share"]
          /\ UNCHANGED <<results, invite>>
       \/ /\ Respond(p, Outcome(Http(500), i.note, "error", "store unavailable", None))
          /\ invite' = [invite EXCEPT ![p] = None]
          /\ UNCHANGED invites
    /\ UNCHANGED <<notes, req, doc, inflight, lostSaves, cache, cacheKeys, emitted, now, joined,
                   collection, pageCache, walk>>

\* An accept whose shareNote does not compare note.owner with the inviter.
acceptInviteShare_NoOwnerCheck(p) ==
    /\ pc[p] = "accept_share"
    /\ LET i == invite[p][1] IN
       \/ /\ Respond(p, Outcome(Http(500), i.note, "error", "store unavailable", None))
          /\ UNCHANGED doc
       \/ /\ notes[i.note] = None
          /\ Respond(p, Outcome(Http(500), i.note, "error", "Note not found", None))
          /\ UNCHANGED doc
       \/ /\ notes[i.note] # None
          /\ LET d == Hydrate(i.note, notes[i.note][1]) IN
             IF FALSE
             THEN /\ Respond(p, Outcome(Http(500), i.note, "error",
                                        "Only the owner can share this note", None))
                  /\ UNCHANGED doc
             ELSE /\ doc' = [doc EXCEPT ![p] = Some(shareWith(d, req[p].user, i.permission))]
                  /\ pc' = [pc EXCEPT ![p] = "shareNote_save"]
                  /\ UNCHANGED results
    /\ invite' = [invite EXCEPT ![p] = None]
    /\ UNCHANGED <<notes, req, inflight, lostSaves, cache, cacheKeys, emitted, invites, now, joined,
                   collection, pageCache, walk>>

\* permissionService.shareNote(invite.note, invite.inviter, userId,
\* invite.permission) up to the save() inside note.shareWith.  That save is
\* the one of shareNote, and so is what follows it: notifyUser throws, so the
\* route never reaches its emitToUser and res.json.
acceptInviteShare(p) ==
    /\ pc[p] = "accept_share"
    /\ LET i == invite[p][1] IN
       \/ /\ Respond(p, Outcome(Http(500), i.note, "error", "store unavailable", None))
          /\ UNCHANGED doc
       \/ /\ notes[i.note] = None
          /\ Respond(p, Outcome(Http(500), i.note, "error", "Note not found", None))
          /\ UNCHANGED doc
       \/ /\ notes[i.note] # None
          /\ LET d == Hydrate(i.note, notes[i.note][1]) IN
             IF d.owner # i.inviter
             THEN /\ Respond(p, Outcome(Http(500), i.note, "error",
                                        "Only the owner can share this note", None))
                  /\ UNCHANGED doc
             ELSE /\ doc' = [doc EXCEPT ![p] = Some(shareWith(d, req[p].user, i.permission))]
                  /\ pc' = [pc EXCEPT ![p] = "shareNote_save"]
                  /\ UNCHANGED results
    /\ invite' = [invite EXCEPT ![p] = None]
    /\ UNCHANGED <<notes, req, inflight, lostSaves, cache, cacheKeys, emitted, invites, now, joined,
                   collection, pageCache, walk>>

\* Time passes on the server.
tick ==
    /\ now < MaxNow
    /\ now' = now + 1
    /\ UNCHANGED <<notes, pc, req, results, doc, inflight, lostSaves, cache, cacheKeys,
                   emitted, invites, invite, joined,
                   collection, pageCache, walk>>

\* ------------------------------- controllers/noteController.js: getNotes pages

\* The notes collection as the paged listing sees it: every document with its
\* Mongoose timestamp (timestamps: true) next to owner and deleted.
PageIds == 1..MaxNotes
Stamps == 1..MaxStamp
ListedNotes == [id : PageIds, owner : Users, updatedAt : Stamps, deleted : BOOLEAN]

\* Math.min(100, Math.max(1, parseInt(req.query.limit || '20', 10)))
Limits == 1..MaxLimit

\* req.query.cursor || 'start'
Start == <<"start">>

\* encodeCursor({updatedAt: last.updatedAt.toISOString(), id: last._id.toString()})
\* and decodeCursor: base64 of the JSON text, and back to the object; the date
\* is rebuilt with new Date(c.updatedAt), the id with ObjectId(c.id).
encodeCursor(n) == <<"b64", n.updatedAt, n.id>>
decodeCursor(cursor) == [updatedAt |-> cursor[2], id |-> cursor[3]]

\* query.$or: { updatedAt: { $lt: date } }, { updatedAt: date, _id: { $lt: oid } }
AfterCursor(n, c) ==
    \/ n.updatedAt < c.updatedAt
    \/ n.updatedAt = c.updatedAt /\ n.id < c.id

\* { owner: userId, deleted: false } with the cursor's $or when there is one.
Query(u, cursor) ==
    {n \in collection :
        /\ n.owner = u
        /\ ~n.deleted
        /\ IF cursor = Start THEN TRUE ELSE AfterCursor(n, decodeCursor(cursor))}

\* .sort({ updatedAt: -1, _id: -1 })
RECURSIVE SortDesc(_)
SortDesc(S) ==
    IF S = {} THEN <<>>
    ELSE LET first == CHOOSE x \in S : \A y \in S \ {x} : AfterCursor(y, x)
         IN <<first>> \o SortDesc(S \ {first})

\* .limit(limit + 1).lean()
Find(u, cursor, limit) ==
    LET sorted == SortDesc(Query(u, cursor))
    IN SubSeq(sorted, 1, IF Len(sorted) > limit + 1 THEN limit + 1 ELSE Len(sorted))

\* payload = { notes: results, nextCursor }: the look-ahead document decides
\* whether there is a next page, the cursor is the last document of this one.
PagePayload(u, cursor, limit) ==
    LET docs == Find(u, cursor, limit) IN
    IF Len(docs) > limit
    THEN [notes |-> SubSeq(docs, 1, limit), nextCursor |-> encodeCursor(docs[limit])]
    ELSE [notes |-> docs, nextCursor |-> None]

\* `notes:${userId}:cursor:${cursor}:limit:${limit}`
PageKey(u, cursor, limit) == <<"notes", u, cursor, limit>>

\* The cached pages under a key.
CachedAt(key) == {e \in pageCache.pages : e.key = key}

\* The client receives a page: it keeps the notes and follows nextCursor.
Receive(payload) ==
    walk' = [walk EXCEPT !.got = Append(@, payload.notes), !.cursor = payload.nextCursor]

\* GET /notes?cursor=&limit= for the next page of the walk, with nothing else
\* running: a cached page is answered as it is; on a miss (or a failed cache
\* read) the page is built from the database, written with setJSON and its key
\* registered with addCacheKeyForUser, each of which Redis may fail (logged).
\* The walks follow each other within the 60 s a cached page lives.
getNotesPage ==
    /\ walk.cursor # None
    /\ LET key == PageKey(walk.user, walk.cursor, walk.limit)
           payload == PagePayload(walk.user, walk.cursor, walk.limit)
       IN \/ /\ CachedAt(key) # {}
             /\ \E e \in CachedAt(key) : Receive(e.payload)
             /\ UNCHANGED pageCache
          \/ /\ \E set \in BOOLEAN, tracked \in BOOLEAN :
                  pageCache' =
                    [pages |-> IF set
                               THEN (pageCache.pages \ CachedAt(key))
                                      \cup {[key |-> key, payload |-> payload]}
                               ELSE pageCache.pages,
                     keys |-> IF tracked THEN pageCache.keys \cup {key}
                              ELSE pageCache.keys]
             /\ Receive(payload)
    /\ UNCHANGED collection
    /\ UNCHANGED <<notes, pc, req, results, doc, inflight, lostSaves, cache, cacheKeys,
                   emitted, invites, invite, now, joined>>

\* No walk is under way: the last one has reached a null nextCursor, or the
\* next one has not asked for its first page.
Resting == walk.cursor = None \/ (walk.cursor = Start /\ walk.got = <<>>)

\* The client starts over from the start cursor, with the page size it uses.
FreshWalk(limit) == [user |-> walk.user, limit |-> limit, cursor |-> Start, got |-> <<>>]

startWalk ==
    /\ walk.cursor = None
    /\ walk' = FreshWalk(walk.limit)
    /\ UNCHANGED <<collection, pageCache>>
    /\ UNCHANGED <<notes, pc, req, results, doc, inflight, lostSaves, cache, cacheKeys,
                   emitted, invites, invite, now, joined>>

\* The timestamp Mongoose gives a save: a request that follows the answered
\* ones is stamped later than every document they saved.
SaveStamps == {s \in Stamps : \A n \in collection : n.updatedAt < s}

\* invalidateForUsers([owner]) over the paged keys: the user's tracked keys and
\* their pages are deleted, or Redis fails and the error is only logged.
invalidatePages(u) ==
    \/ pageCache' = [pages |-> {e \in pageCache.pages :
                                   ~(e.key \in pageCache.keys /\ e.key[2] = u)},
                     keys |-> {k \in pageCache.keys : k[2] # u}]
    \/ UNCHANGED pageCache

\* PUT /notes/:id and DELETE /notes/:id by the owner between two walks, from
\* load to answer: the save stamps updatedAt, then the owner's pages are
\* invalidated. The next walk starts after the answer.
updateListed ==
    /\ Resting
    /\ \E n \in collection, s \in SaveStamps :
         /\ ~n.deleted
         /\ collection' = (collection \ {n}) \cup {[n EXCEPT !.updatedAt = s]}
         /\ invalidatePages(n.owner)
    /\ walk' = FreshWalk(walk.limit)
    /\ UNCHANGED <<notes, pc, req, results, doc, inflight, lostSaves, cache, cacheKeys,
                   emitted, invites, invite, now, joined>>

deleteListed ==
    /\ Resting
    /\ \E n \in collection, s \in SaveStamps :
         /\ ~n.deleted
         /\ collection' = (collection \ {n})
                            \cup {[n EXCEPT !.updatedAt = s, !.deleted = TRUE]}
         /\ invalidatePages(n.owner)
    /\ walk' = FreshWalk(walk.limit)
    /\ UNCHANGED <<notes, pc, req, results, doc, inflight, lostSaves, cache, cacheKeys,
                   emitted, invites, invite, now, joined>>

\* ------------------------------------------------------------ specification

\* The note u1 has created through createNote (version 1, __v 0) and, when
\* shared is not empty, shared with u2 through shareNote (__v 1).
CreatedNote(shared) ==
    [owner |-> "u1", title |-> "", body |-> "", tags |-> <<>>, version |-> 1,
     deleted |-> FALSE, sharedWith |-> shared, isPublic |-> FALSE,
     rev |-> IF shared = <<>> THEN 0 ELSE 1]

SharedWithU2 == { <<[user |-> "u2", permission |-> perm]>> : perm \in {"read", "edit"} }

\* The server starts with no request in progress, an empty cache and the
\* database it is pointed at.
InitServer(stores) ==
    /\ notes \in stores
    /\ pc = [p \in Procs |-> "idle"]
    /\ req = [p \in Procs |-> [kind |-> "none", user |-> "", len |-> 0, change |-> None]]
    /\ results = [p \in Procs |-> <<>>]
    /\ doc = [p \in Procs |-> None]
    /\ inflight = {}
    /\ lostSaves = {}
    /\ cache = [k \in CacheKeyNames |-> None]
    /\ cacheKeys = [u \in Users |-> {}]
    /\ emitted = [p \in Procs |-> <<>>]
    /\ invites = [t \in Tokens |-> None]
    /\ invite = [p \in Procs |-> None]
    /\ now = 0
    /\ joined = {}

\* Nobody lists pages: an empty listing, no cached page, no walk.
InitWith(stores) ==
    /\ InitServer(stores)
    /\ collection = {}
    /\ pageCache = [pages |-> {}, keys |-> {}]
    /\ walk = [user |-> "u1", limit |-> 1, cursor |-> None, got |-> <<>>]

\* An empty database, or one that holds the first note, unshared or shared.
Init ==
    InitWith({[id \in NoteIds |-> None]}
             \cup {[id \in NoteIds |-> IF id = 1 THEN Some(CreatedNote(sh)) ELSE None] :
                     sh \in {<<>>} \cup SharedWithU2})

\* One client request served from start to end: a batch of up to MaxBatch
\* changes, or one call of a single-change endpoint.
Next ==
    \/ syncChanges("p1", 0..MaxBatch)
    \/ syncNullChange("p1")
    \/ syncInvalidChange("p1")
    \/ applyCreate("p1")
    \/ applyCreateSave("p1")
    \/ applyCreateInvalidate("p1")
    \/ applyUpdate("p1")
    \/ applyUpdateSave("p1")
    \/ applyUpdateInvalidate("p1")
    \/ applyDelete("p1")
    \/ applyDeleteInvalidate("p1")
    \/ \E s \in inflight : floatingSave(s)
    \/ createNote("p1")
    \/ createNoteSave("p1")
    \/ createNoteInvalidate("p1")
    \/ updateNote("p1")
    \/ updateNoteSave("p1")
    \/ updateNoteInvalidate("p1")
    \/ deleteNote("p1")
    \/ deleteNoteSave("p1")
    \/ deleteNoteInvalidate("p1")
    \/ shareNote("p1")
    \/ shareNoteSave("p1")
    \/ revokeAccess("p1")
    \/ revokeAccessSave("p1")
    \/ setPublic("p1")
    \/ setPublicSave("p1")

Spec == Init /\ [][Next]_vars

\* Two requests served concurrently against the first note, shared with u2:
\* each is a batch of one update or delete, or one call of a single-change endpoint.
InitRace ==
    InitWith({[id \in NoteIds |-> IF id = 1 THEN Some(CreatedNote(sh)) ELSE None] :
                sh \in SharedWithU2})

NextRace ==
    \/ \E p \in Procs : syncChanges(p, {1})
    \/ \E p \in Procs : applyUpdate(p)
    \/ \E p \in Procs : applyUpdateSave(p)
    \/ \E p \in Procs : applyUpdateInvalidate(p)
    \/ \E p \in Procs : applyDelete(p)
    \/ \E p \in Procs : applyDeleteInvalidate(p)
    \/ \E s \in inflight : floatingSave(s)
    \/ \E p \in Procs : updateNote(p)
    \/ \E p \in Procs : updateNoteSave(p)
    \/ \E p \in Procs : updateNoteInvalidate(p)
    \/ \E p \in Procs : deleteNote(p)
    \/ \E p \in Procs : deleteNoteSave(p)
    \/ \E p \in Procs : deleteNoteInvalidate(p)
    \/ \E p \in Procs : shareNote(p)
    \/ \E p \in Procs : shareNoteSave(p)
    \/ \E p \in Procs : revokeAccess(p)
    \/ \E p \in Procs : revokeAccessSave(p)
    \/ \E p \in Procs : setPublic(p)
    \/ \E p \in Procs : setPublicSave(p)

SpecRace == InitRace /\ [][NextRace]_vars

\* The owner's sharing requests against a client's batch: the first note is
\* unshared or shared with u2 for reading; one request changes who has access
\* (share, revoke, public flag) while another runs a batch of one or two
\* updates or deletes.
InitShare ==
    InitWith({[id \in NoteIds |-> IF id = 1 THEN Some(CreatedNote(sh)) ELSE None] :
                sh \in {<<>>, <<[user |-> "u2", permission |-> "read"]>>}})

NextShare ==
    \/ shareNote("p1")
    \/ shareNoteSave("p1")
    \/ revokeAccess("p1")
    \/ revokeAccessSave("p1")
    \/ setPublic("p1")
    \/ setPublicSave("p1")
    \/ syncChanges("p2", {1, 2})
    \/ applyUpdate("p2")
    \/ applyUpdateSave("p2")
    \/ applyUpdateInvalidate("p2")
    \/ applyDelete("p2")
    \/ applyDeleteInvalidate("p2")
    \/ \E s \in inflight : floatingSave(s)

SpecShare == InitShare /\ [][NextShare]_vars

\* The sharing lists the code can leave in the store: at most one entry per user.
SharingLists ==
    LET Entries == [user : Users, permission : {"read", "edit"}]
        Lists == UNION {[1..n -> Entries] : n \in 0..Cardinality(Users)}
    IN {l \in Lists : \A i \in 1..Len(l), j \in 1..Len(l) : l[i].user = l[j].user => i = j}

\* The first note with any owner, any such sharing list, public or not.
SharedNotes ==
    {[CreatedNote(l) EXCEPT !.owner = o, !.isPublic = pb] :
        o \in Users, l \in SharingLists, pb \in BOOLEAN}

\* Permission resolution beside the owner's sharing requests: one request
\* changes who has access while another asks for a user's role.
InitPerm == InitWith({[id \in NoteIds |-> Some(n)] : n \in SharedNotes})

NextPerm ==
    \/ shareNote("p1")
    \/ shareNoteSave("p1")
    \/ revokeAccess("p1")
    \/ revokeAccessSave("p1")
    \/ setPublic("p1")
    \/ setPublicSave("p1")
    \/ getRole("p2")

SpecPerm == InitPerm /\ [][NextPerm]_vars

\* List reads beside one mutation: a request updates or deletes the first
\* note (single-change endpoint or a batch of one) while a client reads the
\* list again and again.
InitCache ==
    InitWith({[id \in NoteIds |-> IF id = 1 THEN Some(CreatedNote(sh)) ELSE None] :
                sh \in {<<>>, <<[user |-> "u2", permission |-> "read"]>>}})

NextCache ==
    \/ updateNote("p1")
    \/ updateNoteSave("p1")
    \/ updateNoteInvalidate("p1")
    \/ deleteNote("p1")
    \/ deleteNoteSave("p1")
    \/ deleteNoteInvalidate("p1")
    \/ syncChanges("p1", {1})
    \/ applyUpdate("p1")
    \/ applyUpdateSave("p1")
    \/ applyUpdateInvalidate("p1")
    \/ applyDelete("p1")
    \/ applyDeleteInvalidate("p1")
    \/ \E s \in inflight : floatingSave(s)
    \/ getNotes("p2")
    \/ getNotesFind("p2")
    \/ getNotesSet("p2")
    \/ getNotesTrack("p2")
    \/ nextRequest("p2")
    \/ \E u \in Users : cacheExpires(u)

SpecCache == InitCache /\ [][NextCache]_vars

\* The invites of one note: an invite is created for it, by its owner or by
\* anybody else, and two clients redeem tokens, one after the other or at the
\* same time, while time passes.
InitInvite ==
    InitWith({[id \in NoteIds |-> None],
              [id \in NoteIds |-> IF id = 1 THEN Some(CreatedNote(<<>>)) ELSE None]})

NextInvite ==
    \/ createInvite("p1")
    \/ createInviteSave("p1")
    \/ \E p \in Procs :
         \/ acceptInvite(p)
         \/ acceptInviteExpired(p)
         \/ acceptInviteUsed(p)
         \/ acceptInviteShare(p)
         \/ shareNoteSave(p)
         \/ nextRequest(p)
    \/ tick

SpecInvite == InitInvite /\ [][NextInvite]_vars

\* The document channel: sessions of the users and of a stranger join and
\* leave the room of the first note while a client updates or deletes it.
NextRooms ==
    \/ \E u \in Askers, id \in NoteIds : joinNote(u, id)
    \/ \E u \in Askers, id \in NoteIds : leaveNote(u, id)
    \/ syncChanges("p1", {1})
    \/ applyUpdate("p1")
    \/ applyUpdateSave("p1")
    \/ applyUpdateInvalidate("p1")
    \/ applyDelete("p1")
    \/ applyDeleteInvalidate("p1")
    \/ \E s \in inflight : floatingSave(s)

SpecRooms == InitShare /\ [][NextRooms]_vars

\* One batch of objects served while the store and the cache may stay silent:
\* the loop takes up the next change and the query that loads its document
\* is answered, but a save() or an invalidateForUsers may never answer.  No
\* step of the code ends such a wait.
NextHang ==
    \/ syncChanges("p1", 1..MaxBatch)
    \/ syncInvalidChange("p1")
    \/ applyCreate("p1")
    \/ applyCreateSave("p1")
    \/ applyCreateInvalidate("p1")
    \/ applyUpdate("p1")
    \/ applyUpdateSave("p1")
    \/ applyUpdateInvalidate("p1")
    \/ applyDelete("p1")
    \/ applyDeleteInvalidate("p1")
    \/ \E s \in inflight : floatingSave(s)

SpecHang ==
    /\ Init
    /\ [][NextHang]_vars
    /\ WF_vars(\/ syncInvalidChange("p1")
               \/ applyCreate("p1")
               \/ applyUpdate("p1")
               \/ applyDelete("p1"))

\* The paged listing on its own: one client walks the pages of u1's notes, and
\* between two walks an owner updates or deletes a note. The collection holds
\* MaxNotes documents of either user, with any timestamps, live or deleted.
InitPages ==
    /\ InitServer({[id \in NoteIds |-> None]})
    /\ collection \in
         {{[id |-> i, owner |-> f[i].owner, updatedAt |-> f[i].updatedAt,
            deleted |-> f[i].deleted] : i \in PageIds} :
            f \in [PageIds -> [owner : Users, updatedAt : Stamps, deleted : BOOLEAN]]}
    /\ pageCache = [pages |-> {}, keys |-> {}]
    /\ \E limit \in Limits :
         walk = [user |-> "u1", limit |-> limit, cursor |-> Start, got |-> <<>>]

NextPages ==
    \/ getNotesPage
    \/ startWalk
    \/ updateListed
    \/ deleteListed

SpecPages == InitPages /\ [][NextPages]_vars

\* Grants only: each of two requests is a shareNote of the owner u1 on note 1,
\* to one of the other users, and the two run side by side.
Grantees == Askers \ {"u1"}

ownerGrants(p) ==
    /\ pc[p] = "idle"
    /\ \E target \in Grantees, permission \in {"read", "edit"} :
         shareNoteWith(p, "u1", 1, target, permission)

NextGrants ==
    \/ \E p \in Procs : ownerGrants(p)
    \/ \E p \in Procs : shareNoteSave(p)

SpecGrants == InitShare /\ [][NextGrants]_vars

\* ------------------------------------------------------------------ claims

\* The step is the successful answer of an awaited update or delete save of p.
AwaitedCommit(p) ==
    /\ pc[p] \in {"update_save", "updateNote_save", "deleteNote_save"}
    /\ pc'[p] \in {"update_invalidate", "updateNote_invalidate", "deleteNote_invalidate"}

\* The step is the successful answer of the dropped save s of applyDelete.
FloatingCommit(s) == s \in inflight /\ s \notin inflight' /\ lostSaves' = lostSaves

\* The step commits an update or a delete of document id.
CommitsTo(id) ==
    \/ \E p \in Procs : AwaitedCommit(p) /\ doc[p][1].id = id
    \/ \E s \in inflight : FloatingCommit(s) /\ s.doc.id = id

\* C1: for every document, in every interleaving of updates and deletes from
\* the batch and the single-change endpoints, the stored version never
\* decreases and every committed update or delete leaves it strictly greater
\* than it was just before the commit.
C1_VersionStrictlyIncreases ==
    [][\A id \in NoteIds :
          notes[id] # None =>
             /\ notes'[id][1].version >= notes[id][1].version
             /\ CommitsTo(id) => notes'[id][1].version > notes[id][1].version]_vars

\* An update of p was answered ok; its snapshot is the document p saved.
UpdateOk(p) ==
    /\ req[p].kind \in {"sync", "updateNote"}
    /\ results[p] # <<>>
    /\ results[p][1].status = "ok"
    /\ results[p][1].serverNote # None

\* C2: two writers that update the same document after both read the same
\* version are never both answered ok: one gets ok, the other conflict.  Two
\* ok snapshots with the same version are two updates that read the same version.
C2_OneWriterWins ==
    \A p \in Procs, q \in Procs :
        (p # q /\ UpdateOk(p) /\ UpdateOk(q)
           /\ results[p][1].serverNote[1].id = results[q][1].serverNote[1].id)
        => results[p][1].serverNote[1].version # results[q][1].serverNote[1].version

\* The step appends one outcome to the answers of p; Last(p) is that outcome.
Pushed(p) == Len(results'[p]) = Len(results[p]) + 1

Last(p) == results'[p][Len(results'[p])]

\* The step answers p with the failure of the store.
StoreFailed(p) ==
    IF Pushed(p) THEN Last(p).error \in {"store unavailable", "Server error"} ELSE FALSE

\* Document id is live, user u may edit it, and the client version vin is a
\* number strictly below the stored version.
StaleFor(vin, id, u) ==
    IF id \in NoteIds /\ vin.hasVersion
    THEN IF Live(id)
         THEN /\ vin.version < notes[id][1].version
              /\ MayEdit(Hydrate(id, notes[id][1]), u)
         ELSE FALSE
    ELSE FALSE

\* The step answers p with conflict and a snapshot at the stored version of id,
\* and neither writes nor starts a write.
RefusedAsConflict(p, id) ==
    IF Pushed(p)
    THEN /\ Last(p).status = "conflict"
         /\ Last(p).serverNote # None
         /\ Last(p).serverNote[1].version = notes[id][1].version
         /\ notes' = notes
         /\ inflight' = inflight
    ELSE FALSE

\* A stale update of the batch endpoint is refused as a conflict.
StaleSyncUpdateRefused ==
    \A p \in Procs :
       pc[p] = "sync" =>
          \A c \in ChangesAt(Len(results[p]) + 1) :
             (/\ c.op = "update" /\ c.hasNote
              /\ StaleFor(c, c.id, req[p].user)
              /\ applyUpdateWith(p, c)
              /\ ~StoreFailed(p))
             => RefusedAsConflict(p, c.id)

\* A stale PUT /:id is refused as a conflict.
StaleUpdateNoteRefused ==
    \A p \in Procs :
       pc[p] = "idle" =>
          \A u \in Users, id \in NoteIds, vin \in VersionInputs, f \in Payloads :
             (/\ StaleFor(vin, id, u)
              /\ updateNoteWith(p, u, id, vin, f)
              /\ ~StoreFailed(p))
             => RefusedAsConflict(p, id)

\* A stale delete of the batch endpoint is refused as a conflict.
StaleSyncDeleteRefused ==
    \A p \in Procs :
       pc[p] = "sync" =>
          \A c \in ChangesAt(Len(results[p]) + 1) :
             (/\ c.op = "delete" /\ c.hasNote
              /\ StaleFor(c, c.id, req[p].user)
              /\ applyDeleteWith(p, c)
              /\ ~StoreFailed(p))
             => RefusedAsConflict(p, c.id)

\* C3 as claimed: an update or a delete by an editor or the owner of a live
\* document, with a client version strictly below the stored version, is
\* answered conflict with a snapshot at the stored version and leaves the
\* document unchanged (the store answering the load).
C3_StaleUpdateOrDeleteConflicts ==
    [][StaleSyncUpdateRefused /\ StaleUpdateNoteRefused /\ StaleSyncDeleteRefused]_vars

\* C3 as the code has it: an update (batch or PUT /:id) by an editor or the
\* owner of a live document, with a client version strictly below the stored
\* version, is answered conflict with a snapshot at the stored version and
\* leaves the document unchanged; a delete is not gated by the version.
C3_StaleUpdateConflicts ==
    [][StaleSyncUpdateRefused /\ StaleUpdateNoteRefused]_vars

\* A request was answered conflict with a snapshot of a document that has been
\* written at least once since its creation, at the stored version.
C3_Witness ==
    \E p \in Procs :
       /\ results[p] # <<>>
       /\ LET r == results[p][Len(results[p])] IN
          /\ r.status = "conflict"
          /\ r.serverNote # None
          /\ r.serverNote[1].version >= 2
          /\ notes[r.serverNote[1].id] # None
          /\ r.serverNote[1].version = notes[r.serverNote[1].id][1].version

\* The filter {_id: id, deleted: false} of a change matches a stored document.
LiveTarget(id) == IF id \in NoteIds THEN Live(id) ELSE FALSE

\* The step takes the delete of p past the permission check: softDelete marks a
\* copy of document id deleted, one version above the stored one, and starts its save.
DeleteIssued(p, id) ==
    /\ pc'[p] = "delete_invalidate"
    /\ results' = results
    /\ notes' = notes
    /\ \E s \in inflight' \ inflight :
         /\ s.proc = p
         /\ s.doc.id = id
         /\ s.doc.deleted
         /\ s.doc.version = notes[id][1].version + 1

\* The step answers p with the permission error and neither writes nor starts a write.
DeleteDenied(p) ==
    IF Pushed(p)
    THEN /\ Last(p).status = "error"
         /\ Last(p).error = "no permission"
         /\ notes' = notes
         /\ inflight' = inflight
    ELSE FALSE

\* Whatever version a delete change carries, the permission alone decides it.
DeleteDecidedByPermission ==
    \A p \in Procs :
       pc[p] = "sync" =>
          \A c \in ChangesAt(Len(results[p]) + 1) :
             (/\ c.op = "delete" /\ c.hasNote
              /\ LiveTarget(c.id)
              /\ applyDeleteWith(p, c)
              /\ ~StoreFailed(p))
             => IF MayEdit(Hydrate(c.id, notes[c.id][1]), req[p].user)
                THEN DeleteIssued(p, c.id)
                ELSE DeleteDenied(p)

\* The save softDelete started, when the store takes it, leaves the document
\* deleted at the version softDelete gave it and touches nothing else.
DeleteLands ==
    \A s \in inflight :
       FloatingCommit(s) =>
          LET before == notes[s.doc.id][1]
              after == notes'[s.doc.id][1]
          IN /\ after.deleted
             /\ after.version = s.doc.version
             /\ after = [before EXCEPT !.deleted = TRUE, !.version = s.doc.version]

\* A delete that passed the permission check is answered ok.
DeleteAnsweredOk ==
    \A p \in Procs :
       (pc[p] = "delete_invalidate" /\ pc'[p] # "delete_invalidate")
       => IF Pushed(p)
          THEN Last(p).status = "ok" /\ Last(p).id = req[p].change[1].id
          ELSE FALSE

\* C4: a delete change on a live document by an editor or the owner is accepted
\* whatever client version it carries, a lower one included: the document is
\* written as deleted, one version above the version the delete read, and the
\* outcome is ok; a delete by a user without edit is answered with an error and
\* neither writes nor starts a write.
C4_DeleteIgnoresClientVersion ==
    [][DeleteDecidedByPermission /\ DeleteLands /\ DeleteAnsweredOk]_vars

\* A delete that carries a version below the one it read has passed the
\* permission check, and the store holds the document deleted, one version up.
C4_Witness ==
    \E p \in Procs :
       /\ pc[p] = "delete_invalidate"
       /\ req[p].change # None
       /\ req[p].change[1].hasVersion
       /\ req[p].change[1].version < doc[p][1].version - 1
       /\ notes[doc[p][1].id][1].deleted
       /\ notes[doc[p][1].id][1].version = doc[p][1].version

\* Document id is live, user u may edit it, and the client version vin is a
\* number at or above the stored version.
FreshFor(vin, id, u) ==
    IF id \in NoteIds /\ vin.hasVersion
    THEN IF Live(id)
         THEN /\ vin.version >= notes[id][1].version
              /\ MayEdit(Hydrate(id, notes[id][1]), u)
         ELSE FALSE
    ELSE FALSE

\* The step takes the update of p past the version check: the copy to be saved
\* is one version above the stored document.
UpdateAdmitted(p, id, saving) ==
    /\ pc'[p] = saving
    /\ results' = results
    /\ notes' = notes
    /\ doc'[p] # None
    /\ doc'[p][1].version = notes[id][1].version + 1

FreshSyncUpdateAdmitted ==
    \A p \in Procs :
       pc[p] = "sync" =>
          \A c \in ChangesAt(Len(results[p]) + 1) :
             (/\ c.op = "update" /\ c.hasNote
              /\ FreshFor(c, c.id, req[p].user)
              /\ applyUpdateWith(p, c)
              /\ ~StoreFailed(p))
             => UpdateAdmitted(p, c.id, "update_save")

FreshUpdateNoteAdmitted ==
    \A p \in Procs :
       pc[p] = "idle" =>
          \A u \in Users, id \in NoteIds, vin \in VersionInputs, f \in Payloads :
             (/\ FreshFor(vin, id, u)
              /\ updateNoteWith(p, u, id, vin, f)
              /\ ~StoreFailed(p))
             => UpdateAdmitted(p, id, "updateNote_save")

\* The awaited save of an update, when the store takes it, leaves the stored
\* version at the version of the saved copy.
UpdateLands ==
    \A p \in Procs :
       (/\ pc[p] \in {"update_save", "updateNote_save"}
        /\ pc'[p] \in {"update_invalidate", "updateNote_invalidate"})
       => notes'[doc[p][1].id][1].version = doc[p][1].version

\* A saved update is answered ok with the saved copy as snapshot.
UpdateAnsweredOk ==
    \A p \in Procs :
       (/\ pc[p] \in {"update_invalidate", "updateNote_invalidate"}
        /\ pc'[p] # pc[p])
       => IF Pushed(p)
          THEN /\ Last(p).status = "ok"
               /\ Last(p).serverNote # None
               /\ Last(p).serverNote[1].version = doc[p][1].version
          ELSE FALSE

\* C5: an update by an editor or the owner of a live document with a client
\* version at or above the stored version passes the version check; its save
\* leaves the stored version at exactly the version it read plus one and it is
\* answered ok with that snapshot.  So create, update with client version 1 and
\* update with client version 1 again end as ok at 1, ok at 2, conflict at 2.
C5_FreshUpdateAccepted ==
    [][/\ FreshSyncUpdateAdmitted
       /\ FreshUpdateNoteAdmitted
       /\ UpdateLands
       /\ UpdateAnsweredOk]_vars

\* A batch of create, update, update on one document was answered ok with a
\* snapshot at version 1, ok at version 2 and conflict with a snapshot at version 2.
C5_Witness ==
    \E p \in Procs :
       /\ req[p].kind = "sync"
       /\ Len(results[p]) = 3
       /\ results[p][1].status = "ok"
       /\ results[p][1].serverNote # None
       /\ results[p][1].serverNote[1].version = 1
       /\ results[p][2].status = "ok"
       /\ results[p][2].serverNote # None
       /\ results[p][2].serverNote[1].version = 2
       /\ results[p][2].id = results[p][1].id
       /\ results[p][3].status = "conflict"
       /\ results[p][3].serverNote[1].version = 2
       /\ results[p][3].id = results[p][1].id
       /\ notes[results[p][1].id][1].version = 2

\* C6: the batch call never fails as a whole: whatever the elements of the
\* changes array (null, without op, unknown op, without note payload), the
\* promise of syncChanges never rejects.
C6_BatchNeverRejects == \A p \in Procs : pc[p] # "rejected"

\* C7: syncChanges returns one outcome per change, the i-th outcome carrying
\* the localId of the i-th change, and the changes are applied one after
\* another: when the loop is about to take the next change, no write of an
\* earlier change of the batch is still on its way to the store.
C7_OneOutcomePerChangeInOrder ==
    \A p \in Procs :
       req[p].kind = "sync" =>
          /\ \A i \in 1..Len(results[p]) : results[p][i].localId = LocalIdOf(i)
          /\ pc[p] = "done" => Len(results[p]) = req[p].len
          /\ pc[p] \in {"sync", "done"} => \A s \in inflight : s.proc # p

\* The step ends the current change of the batch of p without ok: an error or
\* conflict outcome, or an exception that leaves the loop.
ChangeRejected(p) ==
    /\ req[p].kind = "sync"
    /\ \/ pc[p] # "rejected" /\ pc'[p] = "rejected"
       \/ IF Pushed(p) THEN Last(p).status \in {"error", "conflict"} ELSE FALSE

\* C8: a rejected change neither aborts nor rolls back its siblings: the step
\* that rejects it leaves the store and the writes on their way as they were,
\* keeps the outcomes so far, adds its own outcome and hands the loop to the
\* next change (or returns after the last one), so that the other changes meet
\* what they would have met without it.
C8_RejectedChangeIsolated ==
    [][\A p \in Procs :
          ChangeRejected(p) =>
             /\ notes' = notes
             /\ inflight' = inflight
             /\ Pushed(p)
             /\ SubSeq(results'[p], 1, Len(results[p])) = results[p]
             /\ pc'[p] = IF Len(results'[p]) = req[p].len THEN "done" ELSE "sync"]_vars

\* C9: no change is answered ok unless its write was persisted: the outcome of
\* a change whose save the store refused is never ok.
C9_OkOnlyIfPersisted ==
    \A p \in Procs :
       \A i \in 1..Len(results[p]) :
          results[p][i].status = "ok" => <<p, i>> \notin lostSaves

\* The stored fields a client can see of a document.
Content(n) ==
    [title |-> n.title, body |-> n.body, tags |-> n.tags, version |-> n.version,
     sharedWith |-> n.sharedWith, isPublic |-> n.isPublic, deleted |-> n.deleted]

\* C10: a soft-deleted document accepts no further mutation: once the store
\* holds it with deleted = true, no step changes its title, body, tags,
\* version, sharing list or public flag, and it stays deleted.
C10_DeletedIsFrozen ==
    [][\A id \in NoteIds :
          (IF notes[id] = None THEN FALSE ELSE notes[id][1].deleted)
          => Content(notes'[id][1]) = Content(notes[id][1])]_vars

\* doc.hasPermission(userId, 'edit') on the stored document id answers owner or edit.
EditResolves(id, u) ==
    hasPermission(Hydrate(id, notes[id][1]), u, "edit") \in {"owner", "edit"}

\* A write of an update or a delete is started only for a user whose
\* permission on the stored document resolves to owner or edit.
WriteStartedOnlyWithEdit ==
    \A p \in Procs :
       (/\ pc[p] \in {"sync", "idle"}
        /\ pc'[p] \in {"update_save", "delete_invalidate", "updateNote_save", "deleteNote_save"})
       => /\ doc'[p] # None
          /\ EditResolves(doc'[p][1].id, req'[p].user)

\* An update or delete change of a user without edit is answered with the
\* permission error and neither writes nor starts a write.
DeniedWithoutEdit ==
    \A p \in Procs :
       pc[p] = "sync" =>
          \A c \in ChangesAt(Len(results[p]) + 1) :
             (/\ c.op \in {"update", "delete"} /\ c.hasNote
              /\ LiveTarget(c.id)
              /\ ~EditResolves(c.id, req[p].user)
              /\ (applyUpdateWith(p, c) \/ applyDeleteWith(p, c))
              /\ ~StoreFailed(p))
             => DeleteDenied(p)

\* The save of shareNote, when the store takes it, leaves the user it names
\* with the level it names (the last entry of the list it wrote).
ShareLands ==
    \A p \in Procs :
       (pc[p] = "shareNote_save" /\ pc'[p] = "done" /\ notes' # notes)
       => LET d == doc[p][1]
              granted == d.sharedWith[Len(d.sharedWith)]
          IN /\ notes'[d.id][1].sharedWith = d.sharedWith
             /\ hasPermission(Hydrate(d.id, notes'[d.id][1]), granted.user, granted.permission)
                   \in {"owner", granted.permission}

\* An update change of a user whose permission resolves to owner or edit, not
\* behind the stored version, goes on to its save.
EditorUpdateAdmitted ==
    \A p \in Procs :
       pc[p] = "sync" =>
          \A c \in ChangesAt(Len(results[p]) + 1) :
             (/\ c.op = "update" /\ c.hasNote
              /\ LiveTarget(c.id)
              /\ EditResolves(c.id, req[p].user)
              /\ ~(c.hasVersion /\ c.version < notes[c.id][1].version)
              /\ applyUpdateWith(p, c)
              /\ ~StoreFailed(p))
             => UpdateAdmitted(p, c.id, "update_save")

\* C11: an update or a delete is committed only when the acting user's
\* permission at level edit resolves to owner or edit; a user with only a read
\* share or the public flag is answered with an error and the document is
\* unchanged; once the owner's share at edit is stored, that user's update is
\* admitted, saved and answered ok.
C11_MutationNeedsEdit ==
    [][/\ WriteStartedOnlyWithEdit
       /\ DeniedWithoutEdit
       /\ ShareLands
       /\ EditorUpdateAdmitted
       /\ UpdateLands
       /\ UpdateAnsweredOk]_vars

\* u2, sharing the note for reading at most, had an update refused; the owner's
\* share at edit was stored; the next update of u2 in the same batch was
\* answered ok.
C11_Witness ==
    /\ req["p1"].kind = "shareNote"
    /\ req["p2"].kind = "sync"
    /\ req["p2"].user = "u2"
    /\ Len(results["p2"]) = 2
    /\ results["p2"][1].status = "error"
    /\ results["p2"][1].error = "no permission"
    /\ results["p2"][2].status = "ok"
    /\ results["p2"][2].serverNote # None
    /\ results["p2"][2].serverNote[1].sharedWith = <<[user |-> "u2", permission |-> "edit"]>>
    /\ notes[1][1].sharedWith = <<[user |-> "u2", permission |-> "edit"]>>

\* The stored sharing list of document id has an entry for user u.
HasEntry(id, u) == \E i \in 1..Len(notes[id][1].sharedWith) : notes[id][1].sharedWith[i].user = u

\* A revoke of the owner has been persisted and left user u, who is not the
\* owner, without an entry on document id.
RevokePersisted(id, u) ==
    /\ \E q \in Procs : req[q].kind = "revokeAccess" /\ pc[q] = "done"
    /\ notes[id][1].owner # u
    /\ ~HasEntry(id, u)

\* C12: permission is enforced at the point of mutation: once a revoke of
\* user B's access is persisted, no update or delete by B is written to the
\* store, however B's request interleaves with the revoke.
C12_NoWriteAfterRevoke ==
    [][/\ \A p \in Procs :
            (AwaitedCommit(p) /\ req[p].kind \in {"sync", "updateNote", "deleteNote"})
            => ~RevokePersisted(doc[p][1].id, req[p].user)
       /\ \A s \in inflight :
            FloatingCommit(s) => ~RevokePersisted(s.doc.id, req[s.proc].user)]_vars

\* C13: in every reachable state, a user who is neither the owner of a stored
\* document nor in its sharing list, the document not being public, resolves
\* to no permission for every required level.
C13_StrangerHasNoPermission ==
    \A id \in NoteIds :
       notes[id] # None =>
          \A u \in Askers, required \in RequiredLevels :
             (/\ notes[id][1].owner # u
              /\ ~HasEntry(id, u)
              /\ ~notes[id][1].isPublic)
             => hasPermission(Hydrate(id, notes[id][1]), u, required) = "none"

\* The owner's revoke of u2 has been stored on a note that is not public: u2
\* is neither owner nor in the list, and resolves to none.
C13_Witness ==
    /\ req["p1"].kind = "revokeAccess"
    /\ pc["p1"] = "done"
    /\ notes[1][1].rev = 2
    /\ notes[1][1].owner # "u2"
    /\ ~HasEntry(1, "u2")
    /\ ~notes[1][1].isPublic
    /\ hasPermission(Hydrate(1, notes[1][1]), "u2", "read") = "none"

\* The rules of permission resolution in their order, on the stored document
\* n: owner; else public when public and read is asked; else the level of the
\* user's entry when it satisfies what is asked and none when it does not;
\* else none.
RulesInOrder(n, u, required) ==
    LET mine == {i \in 1..Len(n.sharedWith) : n.sharedWith[i].user = u} IN
    IF n.owner = u THEN "owner"
    ELSE IF n.isPublic /\ required = "read" THEN "public"
    ELSE IF mine # {}
         THEN LET level == n.sharedWith[CHOOSE i \in mine : TRUE].permission IN
              IF required = "edit" /\ level = "read" THEN "none" ELSE level
    ELSE "none"

\* C14: for every stored document, user and required level in {read, edit},
\* the role answered is the result of the rules in their order: owner, then
\* public (for read only), then the user's entry (its level if sufficient,
\* none if not, without falling back to public), then none.
C14_ResolutionOrder ==
    [][\A p \in Procs :
          pc[p] = "idle" =>
             \A u \in Askers, id \in NoteIds, required \in {"read", "edit"} :
                (/\ notes[id] # None
                 /\ getRoleWith(p, u, id, required)
                 /\ ~StoreFailed(p))
                => Last(p).status = RulesInOrder(notes[id][1], u, required)]_vars

\* On a public note where the user has a read entry, the role at level edit
\* was answered none and not public.
C14_Witness ==
    \E p \in Procs :
       /\ req[p].kind = "getRole"
       /\ pc[p] = "done"
       /\ results[p][1].localId = <<"role", "edit">>
       /\ results[p][1].status = "none"
       /\ notes[1][1].isPublic
       /\ notes[1][1].owner # req[p].user
       /\ \E i \in 1..Len(notes[1][1].sharedWith) :
            notes[1][1].sharedWith[i] = [user |-> req[p].user, permission |-> "read"]

\* The step is the stored save of a share of p: resolving right after it, on a
\* note that is not public and for a user other than the owner, answers the
\* granted level at every required level not above it.
GrantThenResolve ==
    \A p \in Procs :
       (pc[p] = "shareNote_save" /\ pc'[p] = "done" /\ notes' # notes)
       => LET d == doc[p][1]
              granted == d.sharedWith[Len(d.sharedWith)]
              after == Hydrate(d.id, notes'[d.id][1])
          IN (~after.isPublic /\ after.owner # granted.user)
             => \A required \in {"read", "edit"} :
                   LevelOf(required) <= LevelOf(granted.permission)
                   => hasPermission(after, granted.user, required) = granted.permission

\* The step is the stored save of a revoke of p: resolving right after it, on
\* a note that is not public, answers none at every required level for the
\* users it removed.
RevokeThenResolve ==
    \A p \in Procs :
       (pc[p] = "revokeAccess_save" /\ pc'[p] = "done" /\ notes' # notes)
       => LET d == doc[p][1]
              after == Hydrate(d.id, notes'[d.id][1])
          IN \A u \in Users :
                (/\ HasEntry(d.id, u)
                 /\ \A i \in 1..Len(d.sharedWith) : d.sharedWith[i].user # u
                 /\ ~after.isPublic /\ after.owner # u)
                => \A required \in RequiredLevels : hasPermission(after, u, required) = "none"

\* A revoke by the owner of a user who has no entry changes nothing and is
\* not answered with an error.
RevokeWithoutEntryIsNoOp ==
    \A p \in Procs :
       pc[p] = "idle" =>
          \A id \in NoteIds, target \in Users :
             (/\ notes[id] # None
              /\ ~HasEntry(id, target)
              /\ revokeAccessWith(p, notes[id][1].owner, id, target)
              /\ ~StoreFailed(p))
             => /\ notes' = notes
                /\ pc'[p] = "done"
                /\ Last(p).status # "error"

\* C15: on a note that is not public and for a user other than the owner, a
\* grant followed immediately by a resolve at a level not above the granted one
\* answers the granted level; a revoke followed immediately by a resolve
\* answers none at every level; a revoke of a user without an entry changes
\* nothing and does not end in an error.
C15_GrantRevokeResolve ==
    [][GrantThenResolve /\ RevokeThenResolve /\ RevokeWithoutEntryIsNoOp]_vars

\* C16: in every reachable state the owner of a stored document has no entry
\* in that document's sharing list, whatever shares and revokes were applied,
\* a share that names the owner included.
C16_OwnerNotInSharingList ==
    \A id \in NoteIds : notes[id] # None => ~HasEntry(id, notes[id][1].owner)

NonOwnerRefused ==
    \A p \in Procs :
       pc[p] = "idle" =>
          \A u \in Users, id \in NoteIds :
             (IF notes[id] = None THEN FALSE ELSE notes[id][1].owner # u)
             => \A target \in Users, permission \in {"read", "edit"}, isPublic \in BOOLEAN :
                   (\/ shareNoteWith(p, u, id, target, permission)
                    \/ revokeAccessWith(p, u, id, target)
                    \/ setPublicWith(p, u, id, isPublic))
                   => /\ pc'[p] = "done"
                      /\ Last(p).status = "error"
                      /\ notes' = notes
                      /\ doc' = doc

\* Every step that changes the sharing list or the public flag of a stored
\* document is the save of a share, revoke or public-flag request of its owner.
AccessChangedByOwnerOnly ==
    \A id \in NoteIds :
       (IF notes[id] = None THEN FALSE
        ELSE \/ notes'[id][1].sharedWith # notes[id][1].sharedWith
             \/ notes'[id][1].isPublic # notes[id][1].isPublic)
       => \E p \in Procs :
             /\ pc[p] \in {"shareNote_save", "revokeAccess_save", "setPublic_save"}
             /\ pc'[p] = "done"
             /\ req[p].user = notes[id][1].owner

\* C18: only the owner can change who has access: a share, revoke or
\* set-public request whose caller is not the document's owner fails with an
\* error and leaves the sharing list and the public flag unchanged, and
\* nothing but an owner's request ever changes them.
C18_OnlyOwnerChangesAccess ==
    [][NonOwnerRefused /\ AccessChangedByOwnerOnly]_vars

\* u2, who shares the note of u1 for reading, asked for a share and was
\* answered that only the owner can share; the list is as it was.
C18_Witness ==
    /\ req["p1"].kind = "shareNote"
    /\ req["p1"].user = "u2"
    /\ pc["p1"] = "done"
    /\ results["p1"][1].status = "error"
    /\ results["p1"][1].error = "Only the owner can share this note"
    /\ notes[1][1].owner = "u1"
    /\ notes[1][1].sharedWith = <<[user |-> "u2", permission |-> "read"]>>
    /\ notes[1][1].rev = 1

\* Every update, delete or create request has been answered and no save is
\* still on its way to the store.
MutationsComplete ==
    /\ inflight = {}
    /\ \A q \in Procs :
          req[q].kind \in {"sync", "updateNote", "deleteNote", "createNote"} => pc[q] = "done"

\* The step answers the list read of p from the cache.
CachedRead(p) ==
    /\ pc[p] = "idle"
    /\ pc'[p] = "done"
    /\ req'[p].kind = "getNotes"
    /\ IF Pushed(p) THEN Last(p).error = "cached" ELSE FALSE

\* C19: after a committed mutation, a later cached list read never returns
\* data older than that mutation: a page answered from the cache once every
\* mutation has been answered is the page the store would give, however the
\* earlier read's query, cache write and key registration interleaved with the
\* mutation's save and invalidation, and also when the cache delete failed.
C19_NoStaleCachedRead ==
    [][\A p \in Procs :
          (CachedRead(p) /\ MutationsComplete)
          => Last(p).serverNote[1] = Payload(req'[p].user)]_vars

\* The positions at which a mutation awaits its cache invalidation.
Invalidating ==
    {"create_invalidate", "update_invalidate", "delete_invalidate",
     "createNote_invalidate", "updateNote_invalidate", "deleteNote_invalidate"}

\* An awaited save hands over to the invalidation only in the step in which
\* the store takes the write.
InvalidationEnteredByWrite ==
    \A p \in Procs :
       (pc'[p] \in Invalidating \ {"delete_invalidate"} /\ pc[p] # pc'[p])
       => /\ pc[p] \in {"create_save", "update_save", "createNote_save",
                        "updateNote_save", "deleteNote_save"}
          /\ notes'[doc[p][1].id] # None
          /\ notes'[doc[p][1].id][1].version = doc[p][1].version

\* When the invalidation of a mutation runs, the write of that mutation is
\* neither still on its way to the store nor refused by it.
InvalidationAfterPersist ==
    \A p \in Procs :
       (pc[p] \in Invalidating /\ pc'[p] # pc[p])
       => /\ \A s \in inflight : ~(s.proc = p /\ s.index = Len(results[p]) + 1)
          /\ <<p, Len(results[p]) + 1>> \notin lostSaves

\* A create, update or delete is answered ok only by the step that ends its
\* invalidation.
OkAfterInvalidation ==
    \A p \in Procs :
       (/\ req[p].kind \in {"sync", "createNote", "updateNote", "deleteNote"}
        /\ IF Pushed(p) THEN Last(p).status = "ok" ELSE FALSE)
       => pc[p] \in Invalidating

\* C20: for every change answered ok the mutation is persisted first, then
\* the cache invalidation for the affected users runs to its end, then ok is
\* returned; the invalidation never runs before its mutation is persisted.
C20_PersistInvalidateAnswer ==
    [][InvalidationEnteredByWrite /\ InvalidationAfterPersist /\ OkAfterInvalidation]_vars

\* The step leaves the store, the writes on their way, the cache, the tracked
\* keys and the emitted events as they were.
Untouched ==
    /\ notes' = notes
    /\ inflight' = inflight
    /\ cache' = cache
    /\ cacheKeys' = cacheKeys
    /\ emitted' = emitted

\* The step answers a change of p with conflict or error.
EndsRefused(p) == IF Pushed(p) THEN Last(p).status \in {"error", "conflict"} ELSE FALSE

\* The positions of a change whose write the engine has issued.
Issued == {"create_invalidate", "update_invalidate", "delete_invalidate"}

\* C21: a change that ends in conflict or error causes no mutation, no cache
\* invalidation and no notification: the step that answers it with conflict or
\* error, and the step before it that loaded or built the document, leave the
\* stored documents, the cached values, every user's tracked keys and the
\* emitted events unchanged, and a change whose write was issued ends in ok.
C21_RefusedChangeHasNoEffect ==
    [][\A p \in Procs :
          req[p].kind = "sync" =>
             /\ EndsRefused(p) => Untouched
             /\ (pc[p] = "sync" /\ pc'[p] \in {"create_save", "update_save"}) => Untouched
             /\ (pc[p] \in Issued /\ Pushed(p)) => Last(p).status = "ok"]_vars

\* A batch answered ok, conflict, error in this order: the events emitted are
\* those of the first change alone.
C21_Witness ==
    \E p \in Procs :
       /\ req[p].kind = "sync"
       /\ Len(results[p]) = 3
       /\ results[p][1].status = "ok"
       /\ results[p][2].status = "conflict"
       /\ results[p][3].status = "error"
       /\ Len(emitted[p]) > 0
       /\ \A i \in 1..Len(emitted[p]) : emitted[p][i].payload.id = results[p][1].id

\* The change is an object without op, or an update or delete without note.id.
Malformed(c) ==
    /\ ~c.isNull
    /\ \/ c.op = Absent
       \/ c.op \in {"update", "delete"} /\ (~c.hasNote \/ c.id = 0)

\* The malformed changes a client can put at position i.
MalformedAt(i) == {c \in ChangesAt(i) : Malformed(c)}

\* The message each of them is answered with.
MalformedError(c) ==
    IF c.op = Absent THEN "invalid change"
    ELSE IF c.op = "update" THEN "id required for update" ELSE "id required for delete"

\* C22: a malformed change (no op, or an update or delete without a target id)
\* is answered with error immediately and performs no I/O: the one step that
\* handles it pushes its error outcome, the same whatever the store holds and
\* never a failure of the store, hands the loop on, holds no document, and
\* leaves the store, the pending writes, the cache, the tracked keys and the
\* emitted events as they were.
C22_MalformedChangeNoIO ==
    [][\A p \in Procs :
          pc[p] = "sync" =>
          \A c \in MalformedAt(Len(results[p]) + 1) :
             (\/ syncInvalidChangeWith(p, c)
              \/ applyUpdateWith(p, c)
              \/ applyDeleteWith(p, c))
             => /\ Pushed(p)
                /\ Last(p) = Outcome(c.localId, 0, "error", MalformedError(c), None)
                /\ pc'[p] = IF Len(results'[p]) = req[p].len THEN "done" ELSE "sync"
                /\ doc' = doc
                /\ lostSaves' = lostSaves
                /\ Untouched]_vars

\* A batch of three malformed changes, one of each kind, answered in full.
C22_Witness ==
    \E p \in Procs :
       /\ req[p].kind = "sync"
       /\ pc[p] = "done"
       /\ Len(results[p]) = 3
       /\ {results[p][i].error : i \in 1..3}
            = {"invalid change", "id required for update", "id required for delete"}
       /\ emitted[p] = <<>>
       /\ doc[p] = None

\* The stored document id after the step, as toJSON() would show it.
StoredAfter(id) == Snapshot(Hydrate(id, notes'[id][1]))

\* C23: every outcome with status ok or conflict, for create, update and delete
\* alike, carries the identity of the server document and, as serverNote, the
\* snapshot of the document as the store holds it once the change is answered.
C23_OutcomeCarriesSnapshot ==
    [][\A p \in Procs :
          (/\ req[p].kind = "sync"
           /\ IF Pushed(p) THEN Last(p).status \in {"ok", "conflict"} ELSE FALSE)
          => /\ Last(p).id \in NoteIds
             /\ IF notes'[Last(p).id] = None
                THEN FALSE
                ELSE Last(p).serverNote = Some(StoredAfter(Last(p).id))]_vars

\* The version a document created from change c starts at: the version the
\* client suggests when that is a number of at least 1, else 1.
InitialVersion(c) == IF c.hasVersion /\ c.version >= 1 THEN c.version ELSE 1

\* C24: a document created through the sync engine is owned by the acting user
\* and starts at version 1, or at the version the client suggests when that is
\* at least 1; hence every stored document has a version of at least 1 in
\* every reachable state.
C24_CreatedVersionAtLeastOne ==
    /\ [][\A p \in Procs :
             pc[p] = "sync" =>
             \A c \in {x \in ChangesAt(Len(results[p]) + 1) : x.op = "create" /\ x.hasNote} :
                applyCreateWith(p, c) =>
                   /\ doc'[p][1].owner = req[p].user
                   /\ doc'[p][1].version = InitialVersion(c)]_vars
    /\ [](\A id \in NoteIds : IF notes[id] = None THEN TRUE ELSE notes[id][1].version >= 1)

\* What the accept route answers once consumeInvite has returned the invite.
AfterRedemption ==
    {"Note not found", "Only the owner can share this note", "notifyUser is not a function",
     "VersionError"}

\* consumeInvite has returned the invite to request p: the route is at its
\* shareNote call, or has answered with what follows it.
Redeemed(p) ==
    /\ req[p].kind = "acceptInvite"
    /\ \/ pc[p] \in {"accept_share", "shareNote_save"}
       \/ IF pc[p] = "done" THEN results[p][1].error \in AfterRedemption ELSE FALSE

\* C25: an invite token is redeemed successfully at most once, two accept
\* requests at the same time included: no two requests are both past a
\* successful consumeInvite of the token.
C25_RedeemedAtMostOnce ==
    \A p \in Procs, q \in Procs : (Redeemed(p) /\ Redeemed(q)) => p = q

\* The e-mails an accept request can carry.
AcceptEmails == {None} \cup {Some(e) : e \in Emails}

\* The store holds an invite under token t and it is marked used.
Used(t) == IF invites[t] = None THEN FALSE ELSE invites[t][1].used

\* Request q was an accept of the token and has been answered with error e.
AnsweredWith(q, errors) ==
    /\ req[q].kind = "acceptInvite"
    /\ IF pc[q] = "done" THEN results[q][1].error \in errors ELSE FALSE

\* The answers of a first redemption that fails on the e-mail, and on expiry.
EmailErrors == {"Invite restricted to different email", "Invite requires matching email"}
ExpiredError == {"Invite expired"}

\* The step answers p's accept with 'Invite already used', or with the
\* failure of the store, and changes no invite.
RejectedAsUsed(p) ==
    /\ pc'[p] = "done"
    /\ Last(p).error \in {"Invite already used", "store unavailable"}
    /\ invites' = invites

\* C26 as stated: redeeming the same existing token twice in sequence, the
\* second redemption always fails with 'already used', whether the first one
\* succeeded or failed on expiry, on an e-mail mismatch or on a missing e-mail.
C26_SecondAlwaysUsed ==
    [][\A p \in Procs, q \in Procs :
          (/\ p # q
           /\ pc[p] = "idle"
           /\ AnsweredWith(q, AfterRedemption \cup ExpiredError \cup EmailErrors))
          => \A u \in Users, t \in Tokens, email \in AcceptEmails :
                acceptInviteWith(p, u, t, email) => RejectedAsUsed(p)]_vars

\* C26: redeeming the same token again after a redemption that succeeded always
\* fails with 'already used' (a token marked used stays so and is refused
\* whatever e-mail comes with it); after one that found the token expired it
\* always fails too, with 'already used' or, when the write of the mark was
\* lost, as expired again; a first redemption that failed on the e-mail does
\* not decide the second.
C26_SecondAfterSuccessIsUsed ==
    [][/\ \A t \in Tokens : Used(t) => Used(t)'
       /\ \A p \in Procs :
             pc[p] = "idle" =>
             \A u \in Users, t \in Tokens, email \in AcceptEmails :
                acceptInviteWith(p, u, t, email) =>
                   /\ Used(t) => RejectedAsUsed(p)
                   /\ \A q \in Procs \ {p} :
                         /\ AnsweredWith(q, AfterRedemption) => RejectedAsUsed(p)
                         /\ AnsweredWith(q, ExpiredError) => pc'[p] # "accept_used_save"]_vars

\* One request is past a successful redemption and the next one was answered
\* 'Invite already used'.
C26_Witness ==
    \E p \in Procs, q \in Procs :
       /\ p # q
       /\ AnsweredWith(q, AfterRedemption)
       /\ AnsweredWith(p, {"Invite already used"})

\* The e-mail of the request satisfies invite i: i is not restricted, or the
\* request carries the same address up to case and surrounding spaces.
Matching(i, email) ==
    IF i.email = None THEN TRUE
    ELSE IF email = None THEN FALSE
    ELSE Normalized(email[1]) = Normalized(i.email[1])

\* The store holds an unused invite under token that has not expired.
Redeemable(token) ==
    IF token \in Tokens
    THEN IF invites[token] = None THEN FALSE
         ELSE ~invites[token][1].used /\ ~Expired(invites[token][1])
    ELSE FALSE

\* The step answers p's accept with the failure of the store.
StoreDown(p) == IF pc'[p] = "done" THEN Last(p).error = "store unavailable" ELSE FALSE

\* C27: a redemption that fails on the e-mail (restricted token and an e-mail
\* that differs beyond case and surrounding spaces, or none) or as invalid
\* (unknown secret) changes no token state; the token stays unused, and an
\* attempt on an unused, unexpired token passes the checks exactly when its
\* e-mail matches and, the store permitting, is handed the invite.
C27_FailedOnEmailKeepsToken ==
    [][\A p \in Procs :
          /\ pc[p] = "idle" =>
             \A u \in Users, token \in Tokens \cup {Forged}, email \in AcceptEmails :
                acceptInviteWith(p, u, token, email) =>
                   /\ (IF pc'[p] = "done"
                       THEN Last(p).error \in EmailErrors \cup {"Invalid invite token"}
                       ELSE FALSE)
                      => /\ invites' = invites
                         /\ invite' = invite
                         /\ IF token \in Tokens
                            THEN IF invites[token] = None THEN TRUE
                                 ELSE ~Matching(invites[token][1], email)
                            ELSE TRUE
                   /\ (IF Redeemable(token) THEN Matching(invites[token][1], email) ELSE FALSE)
                      => (pc'[p] = "accept_used_save" \/ StoreDown(p))
                   /\ pc'[p] = "accept_used_save" => Matching(invites[token][1], email)
          /\ pc[p] = "accept_used_save" => (pc'[p] \in {"accept_used_save", "accept_share"}
                                              \/ StoreDown(p))]_vars

\* One request was refused on the e-mail and another one, with the matching
\* e-mail, has been handed the invite.
C27_Witness ==
    \E p \in Procs, q \in Procs :
       /\ p # q
       /\ AnsweredWith(q, EmailErrors)
       /\ Redeemed(p)

\* The store holds an invite under t whose deadline lies in the past.
PastDeadline(t) ==
    IF invites[t] = None THEN FALSE
    ELSE IF invites[t][1].expiresAt = None THEN FALSE
    ELSE now > invites[t][1].expiresAt[1]

\* The invites collection after the step: as before but for the mark on t.
MarkedUsed(t) == invites' = [invites EXCEPT ![t] = Some([invites[t][1] EXCEPT !.used = TRUE])]

\* C28: redeeming an unused token past its expiry fails with expired and marks
\* the token used (the one write the attempt issues sets used; a refusal of
\* the store is swallowed), and every later attempt on that token fails,
\* whatever e-mail it carries: a token past its deadline stays so, a token
\* marked used stays so, and no accept of either passes the checks.
C28_ExpiredIsTerminal ==
    [][/\ \A t \in Tokens : PastDeadline(t) => PastDeadline(t)'
       /\ \A p \in Procs :
             /\ pc[p] = "idle" =>
                \A u \in Users, t \in Tokens, email \in AcceptEmails :
                   acceptInviteWith(p, u, t, email) =>
                      /\ (PastDeadline(t) /\ ~Used(t))
                         => \/ StoreDown(p)
                            \/ /\ pc'[p] = "accept_expired_save"
                               /\ invite'[p][1].used
                      /\ (PastDeadline(t) \/ Used(t)) => pc'[p] # "accept_used_save"
             /\ (pc[p] = "accept_expired_save" /\ pc'[p] # pc[p])
                => /\ pc'[p] = "done"
                   /\ Last(p).error = "Invite expired"
                   /\ MarkedUsed(invite[p][1].token) \/ invites' = invites]_vars

\* A request was answered 'Invite expired', the token is marked used, and the
\* attempt that came next was answered 'Invite already used'.
C28_Witness ==
    \E p \in Procs, q \in Procs, t \in Tokens :
       /\ p # q
       /\ AnsweredWith(q, ExpiredError)
       /\ PastDeadline(t)
       /\ Used(t)
       /\ AnsweredWith(p, {"Invite already used"})

\* The step in which consumeInvite returns the invite to request p.
Redeems(p) == pc[p] = "accept_used_save" /\ pc'[p] = "accept_share"

\* The store holds an invite under t marked used once the step is taken.
UsedAfter(t) == IF invites'[t] = None THEN FALSE ELSE invites'[t][1].used

\* What the accept route answers when the grant step fails before its write.
GrantFailed == {"Note not found", "Only the owner can share this note"}

\* C29: a successful redemption is terminal even when the grant step that
\* follows fails: the token is marked used when consumeInvite returns it, the
\* shareNote that follows leaves the mark alone whether it fails (no note,
\* inviter not the owner, store down) or not, and every accept of the token
\* that comes after a redemption is refused as already used.
C29_RedemptionTerminalDespiteGrant ==
    [][\A p \in Procs :
          /\ IF Redeems(p) THEN UsedAfter(invite[p][1].token) ELSE TRUE
          /\ IF pc[p] = "accept_share"
             THEN /\ Used(invite[p][1].token)
                  /\ UsedAfter(invite[p][1].token)
                  /\ pc'[p] # pc[p] => invites' = invites
             ELSE TRUE
          /\ (pc[p] = "shareNote_save" /\ pc'[p] # pc[p]) => invites' = invites
          /\ Redeemed(p) =>
                \A q \in Procs \ {p} :
                   pc[q] = "idle" =>
                   \A u \in Users, t \in Tokens, email \in AcceptEmails :
                      acceptInviteWith(q, u, t, email) => RejectedAsUsed(q)]_vars

\* The grant of a redeemed token failed, the token is marked used, and the
\* next attempt was answered 'Invite already used'.
C29_Witness ==
    \E p \in Procs, q \in Procs, t \in Tokens :
       /\ p # q
       /\ AnsweredWith(p, GrantFailed)
       /\ Used(t)
       /\ AnsweredWith(q, {"Invite already used"})

\* User u holds owner on the stored document id.
OwnerOf(id, u) == IF notes[id] = None THEN FALSE ELSE notes[id][1].owner = u

\* C30: an invite token for a document is issued only by a user who holds owner
\* on that document: the invite route stores no invite, and returns no token,
\* when its caller is not the owner or the document does not exist.
C30_OnlyOwnerIssuesInvite ==
    [][\A p \in Procs :
          (pc[p] = "createInvite_save" /\ invites' # invites)
          => OwnerOf(invite[p][1].note, req[p].user)]_vars

\* Request p has emitted note:shared for document id on user u's channel once
\* the step is taken.
AccessGranted(p, u, id) ==
    \E i \in 1..Len(emitted'[p]) :
       /\ emitted'[p][i].room = "user"
       /\ emitted'[p][i].user = u
       /\ emitted'[p][i].event = "note:shared"
       /\ emitted'[p][i].payload.id = id

\* The store holds document id with an entry for u at this permission once the
\* step is taken.
EntryAfter(id, u, permission) ==
    \E i \in 1..Len(notes'[id][1].sharedWith) :
       notes'[id][1].sharedWith[i] = [user |-> u, permission |-> permission]

\* C31: after a successful redemption of a token issued by the current owner
\* of a live document, the accept-invite operation adds the redeemer to the
\* sharing list with the token's permission, emits the access-granted event
\* on the redeemer's personal channel and reports success: the step in which
\* the grant's save is stored answers ok, with the entry in the store and the
\* event emitted.
C31_AcceptGrantsNotifiesSucceeds ==
    [][\A p \in Procs :
          IF /\ req[p].kind = "acceptInvite"
             /\ pc[p] = "shareNote_save"
             /\ pc'[p] = "done"
             /\ notes' # notes
          THEN ~doc[p][1].deleted
               => /\ \E permission \in {"read", "edit"} :
                        EntryAfter(doc[p][1].id, req[p].user, permission)
                  /\ Last(p).status = "ok"
                  /\ AccessGranted(p, req[p].user, doc[p][1].id)
          ELSE TRUE]_vars

\* User u resolves to some role at level read on the stored document id.
ReadResolves(id, u) ==
    IF notes[id] = None THEN FALSE
    ELSE hasPermission(Hydrate(id, notes[id][1]), u, "read") # "none"

\* The step emits an event of document id on the document's channel.
EmitsOnChannel(id) ==
    \E p \in Procs :
       \E i \in (Len(emitted[p]) + 1)..Len(emitted'[p]) :
          emitted'[p][i].room = "note" /\ emitted'[p][i].note = id

\* C32: a session is joined to a document's channel only if its user holds at
\* least read on the document when it asks to join; hence a user with no
\* permission on a document receives none of its updated or deleted events
\* through the document channel, which reach the sessions joined at the emit.
C32_JoinNeedsRead ==
    [][/\ \A u \in Askers, id \in NoteIds :
             (<<u, id>> \in joined' \ joined) => ReadResolves(id, u)
       /\ \A u \in Askers, id \in NoteIds :
             ~(EmitsOnChannel(id) /\ <<u, id>> \in joined /\ ~ReadResolves(id, u))]_vars

\* The places in emitted'[p] of the events request p emits in this step.
NewEvents(p) == (Len(emitted[p]) + 1)..Len(emitted'[p])

\* How many of them go to user u's personal channel as event e.
ToUserCount(p, u, e) ==
    Cardinality({i \in NewEvents(p) :
                   /\ emitted'[p][i].room = "user"
                   /\ emitted'[p][i].user = u
                   /\ emitted'[p][i].event = e})

\* How many of them go to the channel of document id as event e.
ToChannelCount(p, id, e) ==
    Cardinality({i \in NewEvents(p) :
                   /\ emitted'[p][i].room = "note"
                   /\ emitted'[p][i].note = id
                   /\ emitted'[p][i].event = e})

\* The owner and the users of the sharing list of a stored document.
StoredAffected(stored) ==
    {stored.owner} \cup {stored.sharedWith[i].user : i \in 1..Len(stored.sharedWith)}

\* The step answers ok to the update or delete that p holds document d for, and
\* emits event e once to each affected user of d, once on d's channel, and
\* nothing else.
FansOut(p, d, e) ==
    /\ \A u \in Askers : ToUserCount(p, u, e) = (IF u \in AffectedUsers(d) THEN 1 ELSE 0)
    /\ ToChannelCount(p, d.id, e) = 1
    /\ Cardinality(NewEvents(p)) = Cardinality(AffectedUsers(d)) + 1

\* C33: every update or delete reported ok emits its event once on the personal
\* channel of every affected user (the owner and every user in the sharing
\* list at the time of the mutation), once on the document's channel and on no
\* other user's channel; a create reported ok emits 'created' on the acting
\* user's channel only.  The users the events go to are those of the document
\* the request holds, which must be those of the stored document when the
\* write lands.
C33_FanOutToAffectedUsers ==
    [][\A p \in Procs :
          /\ IF pc[p] \in {"update_invalidate", "updateNote_invalidate"} /\ pc'[p] # pc[p]
             THEN FansOut(p, doc[p][1], "note:updated")
             ELSE TRUE
          /\ IF pc[p] \in {"delete_invalidate", "deleteNote_invalidate"} /\ pc'[p] # pc[p]
             THEN FansOut(p, doc[p][1], "note:deleted")
             ELSE TRUE
          /\ IF pc[p] \in {"create_invalidate", "createNote_invalidate"} /\ pc'[p] # pc[p]
             THEN /\ ToUserCount(p, req[p].user, "note:created") = 1
                  /\ Cardinality(NewEvents(p)) = 1
             ELSE TRUE
          /\ IF AwaitedCommit(p)
             THEN AffectedUsers(doc'[p][1]) = StoredAffected(notes'[doc'[p][1].id][1])
             ELSE TRUE]_vars

\* C34: no operation of the sync engine blocks indefinitely: for every finite
\* batch, syncChanges eventually returns with an outcome for every change,
\* even when a save or a cache call never answers.
C34_SyncAlwaysReturns ==
    \A p \in Procs :
       (req[p].kind = "sync" /\ pc[p] # "done")
          ~> (pc[p] = "done" /\ Len(results[p]) = req[p].len)

\* The save that request p started has been answered by the store: nothing of
\* p is still in flight.
Persisted(p) == ~\E s \in inflight : s.proc = p

\* p emits the events of an update or delete in this step, through the
\* single-change endpoint or through the sync engine.
EmitsMutation(p) ==
    \/ updateNoteInvalidate(p)
    \/ deleteNoteInvalidate(p)
    \/ applyUpdateInvalidate(p)
    \/ applyDeleteInvalidate(p)

\* C35: the single-change endpoints and the sync engine's update and delete
\* behave alike; in particular both invalidate, emit and answer ok in the same
\* order relative to persistence, that is after the request's write has been
\* answered by the store.
C35_SameOrderRelativeToPersistence ==
    [][\A p \in Procs : EmitsMutation(p) => Persisted(p)]_vars

\* Every non-deleted note the walking user owns, in descending (updatedAt, id)
\* order, and the notes of the pages received so far, one after the other.
OwnedInOrder == SortDesc({n \in collection : n.owner = walk.user /\ ~n.deleted})

RECURSIVE Flat(_)
Flat(pages) == IF pages = <<>> THEN <<>> ELSE Head(pages) \o Flat(Tail(pages))

VersionlessAt(i) ==
    {Change("update", TRUE, id, NoVersion, f, i) : id \in NoteIds, f \in Payloads}

\* Document id is live and user u holds edit or owner on it.
EditGranted(id, u) == IF Live(id) THEN EditResolves(id, u) ELSE FALSE

\* Request p holds an update change without a numeric version at its save.
SavesVersionless(p) ==
    /\ pc[p] = "update_save"
    /\ pc'[p] # pc[p]
    /\ IF req[p].change = None THEN FALSE ELSE ~req[p].change[1].hasVersion

\* The step answers p with an error of the store: the load or the save failed.
SaveRefused(p) ==
    IF Pushed(p)
    THEN /\ Last(p).status = "error"
         /\ Last(p).error \in {"store unavailable", "Server error", "VersionError"}
    ELSE FALSE

SharingAnswered(p) ==
    /\ req[p].kind \in {"shareNote", "revokeAccess"}
    /\ pc[p] \in {"shareNote_save", "revokeAccess_save"}
    /\ pc'[p] = "done"

\* The sharing list of the stored document id, before and after the step.
SharingListChanged(id) ==
    IF notes[id] = None \/ notes'[id] = None THEN notes'[id] # notes[id]
    ELSE notes'[id][1].sharedWith # notes[id][1].sharedWith

\* C38: a shareNote or revokeAccess that ends with an error, the error of the
\* notification step after the save included, leaves the sharing list as it
\* was; whenever the sharing list was changed the call reports success.
C38_SharingErrorLeavesListUnchanged ==
    [][\A p \in Procs :
          (SharingAnswered(p) /\ \E id \in NoteIds : SharingListChanged(id))
          => Last(p).status = "ok"]_vars

\* The entry the shareNote call of p is about to save: shareWith pushed it last.
Granting(p) == doc[p][1].sharedWith[Len(doc[p][1].sharedWith)]

\* The step is the answer of the store to the save of p's shareNote, the store
\* being up.
GrantAnswered(p) ==
    /\ req[p].kind = "shareNote"
    /\ pc[p] = "shareNote_save"
    /\ pc'[p] = "done"
    /\ Last(p).error # "store unavailable"

C40_RedeemGrantsOnlyForOwnersToken ==
    [][\A p \in Procs :
          IF req[p].kind = "acceptInvite" /\ pc'[p] # pc[p]
          THEN /\ IF pc[p] = "accept_share" /\ pc'[p] = "shareNote_save"
                  THEN OwnerOf(invite[p][1].note, invite[p][1].inviter)
                  ELSE TRUE
               /\ (\E id \in NoteIds : SharingListChanged(id)) => pc[p] = "shareNote_save"
          ELSE TRUE]_vars

\* A token created by a user who does not own the document has been redeemed:
\* the accept was refused and the sharing list has no entry.
C40_Witness ==
    \E p \in Procs :
       /\ req[p].kind = "acceptInvite"
       /\ pc[p] = "done"
       /\ results[p] # <<>>
       /\ results[p][Len(results[p])].error = "Only the owner can share this note"
       /\ \E t \in Tokens :
            IF invites[t] = None THEN FALSE
            ELSE /\ ~OwnerOf(invites[t][1].note, invites[t][1].inviter)
                 /\ IF notes[invites[t][1].note] = None THEN FALSE
                    ELSE notes[invites[t][1].note][1].sharedWith = <<>>

====
